---- MODULE Spec2Model ----
(***************************************************************************)
(* FusionAPI request plane: the rate limiter (internal/core/ratelimit.go), *)
(* the auth middleware and proxy executor (internal/api), the router and   *)
(* source registry (internal/core/router.go, source.go) and the health     *)
(* checker.  Time is counted in ticks; TicksPerMinute ticks make a minute. *)
(***************************************************************************)
EXTENDS Integers, Sequences, FiniteSets, TLC

\* ---------------------------------------------------------------- bounds
NCallers == 2
MaxTime == 1
MaxReleaseCalls == 2
MaxRPM == 2
MaxDaily == 2
MaxConc == 1
MaxToolQuota == 1
TicksPerMinute == 1
MaxBanSteps == 3
MaxExtraErrors == 2
NReqs == 2
NSources == 2
MaxThreshold == 2
MaxFails == 3
MaxRR == 1
MaxRetryBudget == 2
MaxLatency == 1
MaxCalls == 1
NHolders == 2
MaxPad == 1
MaxPasses == 2
NUpdaters == 2
MaxOutages == 2
MaxInterval == 2
MaxUpdates == 1

\* ------------------------------------------------------- rate limiter data
Keys == {"k1"}
Callers == 1..NCallers
Reqs == 1..NReqs
Tools == {"", "cursor", "unknown"}
QuotaTools == {"cursor"}
DayTicks == 1440 * TicksPerMinute
Date(t) == t \div DayTicks
NoBan == -1

\* const ( AutoBanThreshold = 50; AutoBanDuration = 30 * time.Minute )
AutoBanThreshold == 50
AutoBanDuration == 30 * TicksPerMinute

\* the clock of the auto-ban scenarios advances in half ban durations
BanStep == AutoBanDuration \div 2
Horizon == IF MaxTime > MaxBanSteps * BanStep THEN MaxTime ELSE MaxBanSteps * BanStep
Dates == 0..Date(Horizon)

DailyKey(k, t) == <<k, "", Date(t)>>
ToolKey(k, tool, t) == <<k, tool, Date(t)>>
DateKeys == Keys \X ({""} \cup QuotaTools) \X Dates

NoQuotas == [t \in {} |-> 0]
KeyLimits ==
  { [RPM |-> r, DailyQuota |-> d, Concurrent |-> c, ToolQuotas |-> q] :
      r \in {0, 1, MaxRPM}, d \in {0, MaxDaily}, c \in {0, 1, MaxConc},
      q \in {NoQuotas, [t \in QuotaTools |-> MaxToolQuota]} }

VARIABLES
  now,          \* time.Now(), in ticks
  limits,       \* keyID -> model.KeyLimits of the credential
  windows,      \* RateLimiter.windows: keyID -> sequence of timestamps
  dailyCount,   \* RateLimiter.dailyCount: (keyID, tool or "", date) -> count
  concurrent,   \* RateLimiter.concurrent: keyID -> count
  errorCount,   \* RateLimiter.errorCount
  autoBanned,   \* RateLimiter.autoBanned: keyID -> ban time, NoBan when absent
  callers,      \* direct callers of the limiter; the release closure each holds
  serverAPIKey, \* cfg.Server.APIKey, "" when none is configured
  keyEnabled,   \* APIKey.Enabled of the managed credential
  allowedTools, \* APIKey.AllowedTools
  reqs,         \* HTTP requests on /v1/chat/completions
  sources,      \* SourceManager.sources: id -> configuration of the source
  status,       \* Source.Status of each source
  failureThreshold, \* cfg.HealthCheck.FailureThreshold
  failover,     \* cfg.Routing.Failover
  strategy,     \* Router.strategy
  rrIndex,      \* Router.rrIndex
  routed,       \* the last call of RouteRequest: its arguments and its result
  call,         \* the request ChatCompletions is serving: the handler's locals
  logs,         \* rows written by store.SaveLog
  failStreak,   \* probes of a source that failed in a row, as the prober saw them
  recoveredFrom, \* the failure streak that the last successful probe ended
  heapStatus,   \* *model.SourceStatus objects on the heap, by address
  heapMaps,     \* CPAModelProviderMap objects on the heap, by address
  liveStatus,   \* Source.Status of one source: the address it points to, 0 for nil
  holders,      \* goroutines using the accessors: position and the pointer held
  compatText,   \* the text of the upstream's reply on the compat path
  compatResp,   \* the response buildCompatResponse made of it
  strikes,      \* RecordError calls on a credential since its last RecordSuccess
  capQuery,     \* the last call of GetByCapability: its arguments and its result
  pass,         \* the health checker's pass: sources to check, requests sent
  autoDetect,   \* Source.CPA.AutoDetect of each source
  baseURL,      \* Source.BaseURL of each source
  monitor,      \* the HealthChecker: its cfg pointer, context and run goroutines
  flow,         \* one chat-completions request, step by step, and its side effects
  config,       \* the process's *config.Config, its writer and one reader of it
  picks,        \* the sources successive round-robin RouteRequest calls returned
  detect,       \* the last call of DetectTool: its headers and its result
  xlate,        \* one tools-bearing attempt: the translator's and the executor's view
  admissions,   \* per credential: the timestamps of its admitted calls, as observed
  updaters,     \* one source's status and the goroutines updating it, step by step
  upstream      \* which upstreams are down, and the outages there have been

vars == <<now, limits, windows, dailyCount, concurrent, errorCount, autoBanned,
          callers, serverAPIKey, keyEnabled, allowedTools, reqs,
          sources, status, failureThreshold, failover, strategy, rrIndex, routed,
          call, logs, failStreak, recoveredFrom,
          heapStatus, heapMaps, liveStatus, holders, compatText, compatResp,
          strikes, capQuery, pass, autoDetect, baseURL, monitor, flow, config,
          picks, detect, xlate, admissions, updaters, upstream>>

registryVars == <<sources, status, failureThreshold, failover>>
routerVars == <<strategy, rrIndex, routed>>
probeVars == <<failStreak, recoveredFrom>>
accessorVars == <<heapStatus, heapMaps, liveStatus, holders>>
compatVars == <<compatText, compatResp>>
strikeVars == <<strikes>>
queryVars == <<capQuery>>
passVars == <<pass, autoDetect, baseURL>>
tailVars == <<updaters, upstream>>
lastVars == <<picks, detect, xlate, admissions, tailVars>>
lateVars == <<monitor, flow, config, lastVars>>
edgeVars == <<accessorVars, compatVars, strikeVars, queryVars, passVars, lateVars>>
planeVars == <<sources, status, failureThreshold, failover, strategy, rrIndex, routed,
               call, logs, failStreak, recoveredFrom, edgeVars>>

authVars == <<serverAPIKey, keyEnabled, allowedTools>>
httpVars == <<serverAPIKey, keyEnabled, allowedTools, reqs>>

limiterVars == <<windows, dailyCount, concurrent, errorCount, autoBanned>>

\* what the steps on the accessors and on the compat layer leave alone
otherVars == <<now, limits, limiterVars, callers, httpVars, sources, status,
               failureThreshold, failover, routerVars, call, logs, probeVars>>
accessorFrame == <<otherVars, compatVars, strikeVars, queryVars, passVars, lateVars>>
compatFrame == <<otherVars, accessorVars, strikeVars, queryVars, passVars, lateVars>>
queryFrame == <<otherVars, accessorVars, compatVars, strikeVars, passVars, lateVars>>
\* ... the steps on the health checker's lifecycle and on the configuration
earlyVars == <<otherVars, accessorVars, compatVars, strikeVars, queryVars, passVars>>
\* ... the life of the health checker
monitorFrame == <<earlyVars, flow, config, lastVars>>
\* ... the steps of one chat-completions request
flowFrame == <<earlyVars, monitor, config, lastVars>>
\* ... an update of the configuration and a reader of it
configFrame == <<earlyVars, monitor, flow, lastVars>>
\* ... the calls of the pure functions and of the round-robin router
middleVars == <<monitor, flow, config>>
\* ... the calls of RecordError and RecordSuccess
strikeFrame == <<limits, windows, dailyCount, concurrent, callers, httpVars, sources,
                 status, failureThreshold, failover, routerVars, call, logs, probeVars,
                 accessorVars, compatVars, queryVars, passVars, lateVars>>
\* ... a pass of the health checker
passFrame == <<now, limits, limiterVars, callers, httpVars, failureThreshold, failover,
               routerVars, call, logs, probeVars, accessorVars, compatVars, strikeVars,
               queryVars, lateVars>>

\* the loop "if t.After(windowStart) { valid = append(valid, t) }"
\* the purge with a window that ends before the call itself
PurgeWindowBeforeNow(ts, t) == SelectSeq(ts, LAMBDA x : x > t)

\* "if t.After(windowStart) { valid = append(valid, t) }"
PurgeWindow(ts, t) == SelectSeq(ts, LAMBDA x : x > t - TicksPerMinute)

\* "tool != "" && tool != "unknown" && len(ToolQuotas) > 0 && quota, ok && quota > 0"
ToolQuotaApplies(lim, tool) ==
  /\ tool # ""
  /\ tool # "unknown"
  /\ tool \in DOMAIN lim.ToolQuotas
  /\ lim.ToolQuotas[tool] > 0

\* RateLimiter.Enter under r.mu: the checks in order, then the accounting.
EnterOutcome(k, lim, tool, t, w, dc, cc) ==
  LET valid == PurgeWindow(w[k], t)
      w1 == IF lim.RPM > 0 THEN [w EXCEPT ![k] = valid] ELSE w
      rej(reason) == [allowed |-> FALSE, reason |-> reason,
                      windows |-> w1, dailyCount |-> dc, concurrent |-> cc]
  IN IF lim.RPM > 0 /\ Len(valid) >= lim.RPM THEN rej("RPM")
     ELSE IF lim.DailyQuota > 0 /\ dc[DailyKey(k, t)] >= lim.DailyQuota THEN rej("Daily")
     ELSE IF ToolQuotaApplies(lim, tool) /\ dc[ToolKey(k, tool, t)] >= lim.ToolQuotas[tool]
       THEN rej("Tool")
     ELSE IF lim.Concurrent > 0 /\ cc[k] >= lim.Concurrent THEN rej("Concurrent")
     ELSE
       LET w2 == IF lim.RPM > 0 THEN [w1 EXCEPT ![k] = Append(w1[k], t)] ELSE w1
           d1 == IF lim.DailyQuota > 0
                   THEN [dc EXCEPT ![DailyKey(k, t)] = @ + 1] ELSE dc
           d2 == IF ToolQuotaApplies(lim, tool)
                   THEN [d1 EXCEPT ![ToolKey(k, tool, t)] = @ + 1] ELSE d1
           c1 == IF lim.Concurrent > 0 THEN [cc EXCEPT ![k] = @ + 1] ELSE cc
       IN [allowed |-> TRUE, reason |-> "", windows |-> w2, dailyCount |-> d2,
           concurrent |-> c1]

\* AllowWithTool as it was before the fix: Allow charges RPM and daily quota,
\* and only then is the tool quota checked.
AllowWithToolOutcomeChargeFirst(k, lim, tool, t, w, dc) ==
  LET valid == PurgeWindow(w[k], t)
      w1 == IF lim.RPM > 0 THEN [w EXCEPT ![k] = valid] ELSE w
      w2 == IF lim.RPM > 0 THEN [w1 EXCEPT ![k] = Append(w1[k], t)] ELSE w1
      d1 == IF lim.DailyQuota > 0
              THEN [dc EXCEPT ![DailyKey(k, t)] = @ + 1] ELSE dc
  IN IF lim.RPM > 0 /\ Len(valid) >= lim.RPM
       THEN [allowed |-> FALSE, reason |-> "RPM", windows |-> w1, dailyCount |-> dc]
     ELSE IF lim.DailyQuota > 0 /\ dc[DailyKey(k, t)] >= lim.DailyQuota
       THEN [allowed |-> FALSE, reason |-> "Daily", windows |-> w1, dailyCount |-> dc]
     ELSE IF ToolQuotaApplies(lim, tool) /\ dc[ToolKey(k, tool, t)] >= lim.ToolQuotas[tool]
       THEN [allowed |-> FALSE, reason |-> "Tool", windows |-> w2, dailyCount |-> d1]
     ELSE [allowed |-> TRUE, reason |-> "", windows |-> w2,
           dailyCount |-> IF ToolQuotaApplies(lim, tool)
                            THEN [d1 EXCEPT ![ToolKey(k, tool, t)] = @ + 1] ELSE d1]

\* RateLimiter.AllowWithTool under r.mu: RPM, daily and tool checks, then the
\* accounting; the concurrent counter is neither read nor written.
AllowWithToolOutcome(k, lim, tool, t, w, dc) ==
  LET valid == PurgeWindow(w[k], t)
      w1 == IF lim.RPM > 0 THEN [w EXCEPT ![k] = valid] ELSE w
      rej(reason) == [allowed |-> FALSE, reason |-> reason,
                      windows |-> w1, dailyCount |-> dc]
  IN IF lim.RPM > 0 /\ Len(valid) >= lim.RPM THEN rej("RPM")
     ELSE IF lim.DailyQuota > 0 /\ dc[DailyKey(k, t)] >= lim.DailyQuota THEN rej("Daily")
     ELSE IF ToolQuotaApplies(lim, tool) /\ dc[ToolKey(k, tool, t)] >= lim.ToolQuotas[tool]
       THEN rej("Tool")
     ELSE
       LET w2 == IF lim.RPM > 0 THEN [w1 EXCEPT ![k] = Append(w1[k], t)] ELSE w1
           d1 == IF lim.DailyQuota > 0
                   THEN [dc EXCEPT ![DailyKey(k, t)] = @ + 1] ELSE dc
           d2 == IF ToolQuotaApplies(lim, tool)
                   THEN [d1 EXCEPT ![ToolKey(k, tool, t)] = @ + 1] ELSE d1
       IN [allowed |-> TRUE, reason |-> "", windows |-> w2, dailyCount |-> d2]

\* ------------------------------------------------------ source registry
SourceIDs == 1..NSources
Models == {"m1", "m2"}
ReqModels == {""} \cup Models
Strategies == {"priority", "round-robin", "weighted", "least-latency", "least-cost"}
Latencies == 1..MaxLatency

\* RouteRequest returning (nil, ErrNoAvailableSource)
NoSource == 0

\* Source.Status.ModelProviders of a source on which nothing was detected
NoProviders == [m \in {} |-> ""]

SeqToSet(seq) == { seq[i] : i \in DOMAIN seq }

\* model.CPAProviderCapabilities[p].FC, false for a provider not in the matrix
CPAProviderFC(p) == p \in {"gemini", "claude", "codex"}

SourceConfig(type, enabled, fc, thinking, vision, models, priority, weight, providers, mode) ==
  [Type |-> type, Enabled |-> enabled, FunctionCalling |-> fc,
   ExtendedThinking |-> thinking, Vision |-> vision, Models |-> models,
   Priority |-> priority, Weight |-> weight, Providers |-> providers,
   AccountMode |-> mode]

\* &model.SourceStatus{State: model.HealthStateHealthy}, with the balance and
\* the detected model->provider map the source has at that moment
SourceStatus(state, balance, detected) ==
  [State |-> state, ConsecutiveFail |-> 0, LastError |-> "", Latency |-> 0,
   Balance |-> balance, ModelProviders |-> detected]

\* registered sources: configuration and live status
HealthyRegistrations ==
  { [cfg |-> SourceConfig("openai", TRUE, TRUE, TRUE, TRUE, {}, 1, 1, <<>>, ""),
     st |-> SourceStatus("healthy", 0, NoProviders)],
    [cfg |-> SourceConfig("openai", TRUE, FALSE, FALSE, TRUE, {"m1"}, 1, 2, <<>>, ""),
     st |-> SourceStatus("healthy", 1, NoProviders)],
    [cfg |-> SourceConfig("cpa", TRUE, FALSE, FALSE, TRUE, {}, 2, 1, <<"qwen">>, "multi"),
     st |-> SourceStatus("healthy", 0, NoProviders)] }

Registrations ==
  HealthyRegistrations \cup
  { [cfg |-> SourceConfig("cpa", TRUE, FALSE, FALSE, TRUE, {"m1", "m2"}, 1, 1,
                          <<"gemini", "qwen">>, "single"),
     st |-> SourceStatus("healthy", 0, [m \in Models |-> IF m = "m1" THEN "qwen" ELSE "gemini"])],
    [cfg |-> SourceConfig("newapi", TRUE, FALSE, FALSE, FALSE, {"m2"}, 2, 0, <<>>, ""),
     st |-> SourceStatus("healthy", 1, NoProviders)],
    [cfg |-> SourceConfig("openai", FALSE, TRUE, FALSE, TRUE, {}, 1, 1, <<>>, ""),
     st |-> SourceStatus("healthy", 0, NoProviders)],
    [cfg |-> SourceConfig("anthropic", TRUE, TRUE, TRUE, TRUE, {"m2"}, 1, 1, <<>>, ""),
     st |-> SourceStatus("unhealthy", 0, NoProviders)] }

\* Source.IsHealthy
IsHealthy(st) == st.State = "healthy"

\* Source.SupportsModel
SupportsModel(src, modelName) == src.Models = {} \/ modelName \in src.Models

\* Source.GetProviderForModel
GetProviderForModel(st, modelName) ==
  IF modelName \in DOMAIN st.ModelProviders THEN st.ModelProviders[modelName] ELSE ""

\* Source.GetEffectiveCPAProviders
GetEffectiveCPAProviders(src) ==
  IF Len(src.Providers) = 0 THEN <<>>
  ELSE IF src.AccountMode = "single" /\ Len(src.Providers) > 1 THEN <<src.Providers[1]>>
  ELSE src.Providers

\* Source.IsCPAProviderEnabled
IsCPAProviderEnabled(src, provider) ==
  IF provider = "" THEN FALSE
  ELSE IF Len(GetEffectiveCPAProviders(src)) = 0 THEN TRUE
  ELSE provider \in SeqToSet(GetEffectiveCPAProviders(src))

\* Source.SupportsFCForModel
SupportsFCForModel(src, st, modelName) ==
  IF src.Type # "cpa" THEN src.FunctionCalling
  ELSE LET provider == GetProviderForModel(st, modelName)
       IN IF provider # "" /\ ~IsCPAProviderEnabled(src, provider) THEN FALSE
          ELSE IF provider = ""
            THEN IF Len(src.Providers) > 0
                   THEN \E p \in SeqToSet(GetEffectiveCPAProviders(src)) : CPAProviderFC(p)
                   ELSE src.FunctionCalling
            ELSE CPAProviderFC(provider)

\* sourceSupportsFC of the proxy
SourceSupportsFC(src, st, modelName) ==
  IF src.Type = "cpa" THEN SupportsFCForModel(src, st, modelName) ELSE src.FunctionCalling

\* the body of the loop of GetByCapability: the source is appended
Admits(src, st, needFC, needThinking, needVision, modelName) ==
  /\ src.Enabled
  /\ IsHealthy(st)
  /\ IF src.Type = "cpa"
       THEN /\ ~( /\ modelName # ""
                  /\ GetProviderForModel(st, modelName) # ""
                  /\ ~IsCPAProviderEnabled(src, GetProviderForModel(st, modelName)) )
            /\ ~needThinking
            /\ ~(needFC /\ ~SupportsFCForModel(src, st, modelName))
       ELSE /\ ~(needFC /\ ~src.FunctionCalling)
            /\ ~(needThinking /\ ~src.ExtendedThinking)
  /\ ~(needVision /\ ~src.Vision)
  /\ ~(modelName # "" /\ ~SupportsModel(src, modelName))

\* the orders in which "for _, src := range m.sources" may visit the map
Orders ==
  { o \in [1..NSources -> SourceIDs] : \A i, j \in 1..NSources : i # j => o[i] # o[j] }

\* SourceManager.GetByCapability, the map visited in the given order
GetByCapability(order, srcs, sts, needFC, needThinking, needVision, modelName) ==
  SelectSeq(order, LAMBDA id :
    Admits(srcs[id], sts[id], needFC, needThinking, needVision, modelName))

\* "if !excludeMap[src.ID] { filtered = append(filtered, src) }"
Excluding(cands, exclude) == SelectSeq(cands, LAMBDA id : id \notin SeqToSet(exclude))

\* RouteRequest whose fallback to the sources without function calling is
\* taken as it is, the sources already tried included
RouteCandidatesFallbackUnfiltered(order, srcs, sts, req, exclude) ==
  LET c1 == GetByCapability(order, srcs, sts, req.hasTools, req.hasThinking,
                            req.hasVision, req.model)
      fb == GetByCapability(order, srcs, sts, FALSE, req.hasThinking,
                            req.hasVision, req.model)
      c2 == IF Len(c1) = 0 /\ req.hasTools THEN fb ELSE c1
      c3 == IF Len(exclude) > 0 THEN Excluding(c2, exclude) ELSE c2
  IN IF Len(c3) = 0 /\ req.hasTools THEN fb ELSE c3

\* RouteRequest up to the strategy: candidates, FC fallback, exclusion, and
\* the fallback again under the exclusion
RouteCandidates(order, srcs, sts, req, exclude) ==
  LET c1 == GetByCapability(order, srcs, sts, req.hasTools, req.hasThinking,
                            req.hasVision, req.model)
      fb == GetByCapability(order, srcs, sts, FALSE, req.hasThinking,
                            req.hasVision, req.model)
      c2 == IF Len(c1) = 0 /\ req.hasTools THEN fb ELSE c1
      c3 == IF Len(exclude) > 0 THEN Excluding(c2, exclude) ELSE c2
  IN IF Len(c3) = 0 /\ req.hasTools
       THEN IF Len(exclude) > 0 THEN Excluding(fb, exclude) ELSE fb
       ELSE c3

MinOf(S) == CHOOSE x \in S : \A y \in S : x <= y
MaxOf(S) == CHOOSE x \in S : \A y \in S : x >= y

\* Router.priority: the top-priority band, round-robin inside it
Priority(cands, srcs, rr) ==
  LET top == MinOf({ srcs[id].Priority : id \in SeqToSet(cands) })
      sameRank == SelectSeq(cands, LAMBDA id : srcs[id].Priority = top)
  IN IF Len(sameRank) > 1
       THEN [id |-> sameRank[((rr + 1) % Len(sameRank)) + 1], rr |-> rr + 1]
       ELSE [id |-> sameRank[1], rr |-> rr]

\* Router.roundRobin
RoundRobin(cands, rr) == [id |-> cands[((rr + 1) % Len(cands)) + 1], rr |-> rr + 1]

\* "w := src.Weight; if w <= 0 { w = 1 }"
EffectiveWeight(src) == IF src.Weight <= 0 THEN 1 ELSE src.Weight

RECURSIVE Cumulative(_, _, _)
Cumulative(cands, srcs, i) ==
  IF i = 0 THEN 0 ELSE Cumulative(cands, srcs, i - 1) + EffectiveWeight(srcs[cands[i]])

\* Router.weighted: the bucket that owns the offset
Weighted(cands, srcs, rr) ==
  LET idx == (rr + 1) % Cumulative(cands, srcs, Len(cands))
      i == MinOf({ j \in 1..Len(cands) : idx < Cumulative(cands, srcs, j) })
  IN [id |-> cands[i], rr |-> rr + 1]

\* Router.leastLatency
LeastLatency(cands, sts, rr) ==
  LET low == MinOf({ sts[id].Latency : id \in SeqToSet(cands) })
  IN [id |-> SelectSeq(cands, LAMBDA id : sts[id].Latency = low)[1], rr |-> rr]

\* Router.leastCost: the highest balance wins
LeastCost(cands, sts, rr) ==
  LET high == MaxOf({ sts[id].Balance : id \in SeqToSet(cands) })
  IN [id |-> SelectSeq(cands, LAMBDA id : sts[id].Balance = high)[1], rr |-> rr]

\* Router.RouteRequest: what it returns and the round-robin index it leaves
RouteRequestOutcome(order, srcs, sts, strat, rr, req, exclude) ==
  LET cands == RouteCandidates(order, srcs, sts, req, exclude)
      sel == CASE strat = "round-robin" -> RoundRobin(cands, rr)
               [] strat = "weighted" -> Weighted(cands, srcs, rr)
               [] strat = "least-latency" -> LeastLatency(cands, sts, rr)
               [] strat = "least-cost" -> LeastCost(cands, sts, rr)
               [] OTHER -> Priority(cands, srcs, rr)
  IN IF Len(cands) = 0 THEN [ok |-> FALSE, id |-> NoSource, rr |-> rr]
     ELSE [ok |-> TRUE, id |-> sel.id, rr |-> sel.rr]

RouteRequests ==
  { r \in [model : ReqModels, hasTools : BOOLEAN, hasThinking : BOOLEAN,
            hasVision : BOOLEAN] : ~(r.hasThinking /\ r.hasVision) }

\* the exclude lists a caller may pass
ExcludeLists ==
  { <<>> } \cup { <<id>> : id \in SourceIDs }
           \cup { <<p[1], p[2]>> : p \in { q \in SourceIDs \X SourceIDs : q[1] < q[2] } }

NoRoute == [called |-> FALSE, model |-> "", hasTools |-> FALSE, hasThinking |-> FALSE,
            hasVision |-> FALSE, exclude |-> {}, ok |-> FALSE, id |-> NoSource]

\* the record kept of a RouteRequest call
RouteRecord(req, exclude, out) ==
  [called |-> TRUE, model |-> req.model, hasTools |-> req.hasTools,
   hasThinking |-> req.hasThinking, hasVision |-> req.hasVision,
   exclude |-> SeqToSet(exclude), ok |-> out.ok, id |-> out.id]

\* written: SSE bytes were flushed to the client; result: how the last attempt
\* ended; errorCode: error.code of the body sent to the client
IdleCall == [pc |-> "idle", rid |-> 0, model |-> "", hasTools |-> FALSE,
             stream |-> FALSE, tried |-> <<>>, attempt |-> 0,
             failoverFrom |-> NoSource, statusCode |-> 0, path |-> "",
             written |-> FALSE, result |-> "", errorCode |-> ""]

\* nothing is routed, proxied or probed
InitNoRouting ==
  /\ sources = [s \in SourceIDs |->
                  SourceConfig("openai", TRUE, TRUE, TRUE, TRUE, {}, 1, 1, <<>>, "")]
  /\ status = [s \in SourceIDs |-> SourceStatus("healthy", 0, NoProviders)]
  /\ failureThreshold = 3
  /\ failover = [Enabled |-> TRUE, MaxRetries |-> 2]
  /\ strategy = "priority"
  /\ rrIndex = 0
  /\ routed = NoRoute
  /\ call = IdleCall
  /\ logs = <<>>
  /\ failStreak = [s \in SourceIDs |-> 0]
  /\ recoveredFrom = [s \in SourceIDs |-> 0]

\* ------------------------------------------- Source.GetStatus / SetStatus
Holders == 1..NHolders
\* one object per holder and one for the source
Addrs == 1..(NHolders + 1)
Nil == 0
HealthStates == {"healthy", "unhealthy"}
Providers == {"gemini", "qwen"}

\* the model ids a caller uses as keys
DetectedModels == {"m1"}

\* the values of a CPAModelProviderMap: model_id -> provider
ProviderMaps == UNION { [ks -> Providers] : ks \in SUBSET DetectedModels }

\* a heap cell nothing points to
FreeStatus == [State |-> "", ModelProviders |-> Nil]
FreeMap == << >>

\* &SourceStatus{State: HealthStateHealthy}
FreshStatus == [State |-> "healthy", ModelProviders |-> Nil]

\* addresses of the status objects reachable from the source or a goroutine
StatusRefs(live, hs) == ({live} \cup { hs[h].ptr : h \in Holders }) \ {Nil}

\* addresses of the maps reachable through those objects
MapRefs(objs, refs) == { objs[a].ModelProviders : a \in refs } \ {Nil}

\* the garbage collector: a cell nothing reaches is free again
CollectStatus(objs, refs) ==
  [a \in Addrs |-> IF a \in refs THEN objs[a] ELSE FreeStatus]

CollectMaps(maps, objs, refs) ==
  [a \in Addrs |-> IF a \in MapRefs(objs, refs) THEN maps[a] ELSE FreeMap]

\* the allocator: some cell that is not reachable
NewAddr(used) == CHOOSE a \in Addrs : a \notin used /\ \A b \in Addrs \ used : a <= b

\* what a reader sees through a pointer: the fields and the entries of the map
Deref(objs, maps, ptr) ==
  IF ptr = Nil
    THEN [State |-> "healthy", NilMap |-> TRUE, Entries |-> << >>]
    ELSE [State |-> objs[ptr].State,
          NilMap |-> objs[ptr].ModelProviders = Nil,
          Entries |-> IF objs[ptr].ModelProviders = Nil THEN << >>
                      ELSE maps[objs[ptr].ModelProviders]]

\* the value a call of GetStatus returns now
GetStatusView == Deref(heapStatus, heapMaps, liveStatus)

IdleHolder == [pc |-> "idle", ptr |-> Nil]

\* after SourceManager.Load: src.Status = &SourceStatus{State: healthy}
InitNoAccessor ==
  /\ heapStatus = [a \in Addrs |-> IF a = 1 THEN FreshStatus ELSE FreeStatus]
  /\ heapMaps = [a \in Addrs |-> FreeMap]
  /\ liveStatus = 1
  /\ holders = [h \in Holders |-> IdleHolder]

\* ------------------------------------- FC compat layer: the reply's text
\* A text is a sequence of tokens: white space, a fence "```" with the word
\* that follows it, one JSON object, or words that are not JSON.
WS == [kind |-> "ws", info |-> "", obj |-> << >>]
Fence(info) == [kind |-> "fence", info |-> info, obj |-> << >>]
Word(w) == [kind |-> "word", info |-> w, obj |-> << >>]
Json(o) == [kind |-> "json", info |-> "", obj |-> o]

\* strings whose white space matters: sequences of pieces, " " a blank one
Blank == " "
ToolNames == { << >>, <<Blank>>, <<"get_weather">>, <<Blank, "get_weather">>,
               <<"get_weather", Blank>> }
FinalTexts == { << >>, <<Blank>>, <<"done">> }

\* the bytes of "arguments" as json.RawMessage keeps them, "" when absent
NoArguments == ""
RawArguments == { NoArguments, "null", "{}", "{\"city\":\"NYC\"}",
                  "{ \"city\" : \"NYC\" }", "\"NYC\"" }

\* the JSON value that the bytes denote
JsonValue(raw) ==
  CASE raw = "null" -> "null"
    [] raw = "{}" -> "object()"
    [] raw \in {"{\"city\":\"NYC\"}", "{ \"city\" : \"NYC\" }"} -> "object(city=NYC)"
    [] raw = "\"NYC\"" -> "string(NYC)"
    [] OTHER -> "invalid"

\* json.Valid
JsonValid(raw) == JsonValue(raw) # "invalid"

\* fcCompatPayload after json.Unmarshal: ToolCall nil or {Name, Arguments}
Payload(hasToolCall, name, arguments, final) ==
  [HasToolCall |-> hasToolCall, Name |-> name, Arguments |-> arguments, Final |-> final]

Payloads ==
  { Payload(TRUE, n, a, f) : n \in ToolNames, a \in RawArguments, f \in FinalTexts }
    \cup { Payload(FALSE, << >>, NoArguments, f) : f \in FinalTexts }

Pads == { p \in UNION { [1..n -> {WS}] : n \in 0..MaxPad } : TRUE }
FenceInfos == {"", "json", "JSON", "js"}
Bodies == { <<Json(o)>> : o \in Payloads } \cup { <<Word("sure")>>, << >> }

\* the replies of the upstream: bare, inside a fence, inside a fence left open
ReplyTexts ==
  { p1 \o b \o p2 : p1 \in Pads, b \in Bodies, p2 \in Pads }
    \cup { <<Fence(i)>> \o p1 \o b \o p2 \o <<Fence("")>> \o p3 :
             i \in FenceInfos, p1 \in Pads, b \in Bodies, p2 \in Pads, p3 \in Pads }
    \cup { <<Fence(i)>> \o p1 \o b : i \in FenceInfos, p1 \in Pads, b \in Bodies }

\* strings.TrimSpace on a sequence, space being its blank elements
TrimSpace(seq, space) ==
  LET solid == { i \in DOMAIN seq : seq[i] \notin space }
  IN  IF solid = {} THEN << >>
      ELSE SubSeq(seq, CHOOSE i \in solid : \A j \in solid : i <= j,
                       CHOOSE i \in solid : \A j \in solid : i >= j)

\* stripCodeFence without the fence removed
StripCodeFenceKept(text) == TrimSpace(text, {WS})

\* stripCodeFence
StripCodeFence(text) ==
  LET s == TrimSpace(text, {WS})
  IN  IF s = << >> \/ s[1].kind # "fence" THEN s
      ELSE LET \* TrimPrefix "```json", "```JSON", "```": another word stays
               opened == IF s[1].info \in {"", "json", "JSON"}
                           THEN Tail(s)
                           ELSE <<Word(s[1].info)>> \o Tail(s)
               ticks == { i \in DOMAIN opened : opened[i].kind = "fence" }
               \* s[:strings.LastIndex(s, "```")]
               cut == IF ticks = {} THEN opened
                      ELSE SubSeq(opened, 1, (CHOOSE i \in ticks : \A j \in ticks : i >= j) - 1)
           IN  TrimSpace(cut, {WS})

NoParse == [toolName |-> << >>, toolArgs |-> "", final |-> << >>, ok |-> FALSE]

\* parseCompatOutput
ParseCompatOutput(text) ==
  LET clean == StripCodeFence(text)
  IN  IF clean = << >> THEN NoParse
      ELSE IF ~(Len(clean) = 1 /\ clean[1].kind = "json") THEN NoParse
      ELSE LET payload == clean[1].obj
               raw == payload.Arguments
               args == IF raw = "" \/ raw = "null" THEN "{}" ELSE raw
           IN  IF payload.HasToolCall /\ TrimSpace(payload.Name, {Blank}) # << >>
                 THEN [toolName |-> TrimSpace(payload.Name, {Blank}),
                       toolArgs |-> IF JsonValid(args) THEN args ELSE "{\"input\":...}",
                       final |-> << >>, ok |-> TRUE]
               ELSE IF TrimSpace(payload.Final, {Blank}) # << >>
                 THEN [toolName |-> << >>, toolArgs |-> "",
                       final |-> TrimSpace(payload.Final, {Blank}), ok |-> TRUE]
               ELSE NoParse

\* Choices[0] of the response: the tool calls, the content, the finish reason
NoResp == [built |-> FALSE, ToolCalls |-> << >>, Content |-> "", FinishReason |-> ""]

\* buildCompatResponse, extractResponseText for a string content included
BuildCompatResponseOutcome(content) ==
  LET text == TrimSpace(content, {WS})
      out == ParseCompatOutput(text)
  IN  IF out.ok /\ out.toolName # << >>
        THEN [built |-> TRUE,
              ToolCalls |-> <<[Name |-> out.toolName, Arguments |-> out.toolArgs]>>,
              Content |-> "", FinishReason |-> "tool_calls"]
        ELSE [built |-> TRUE, ToolCalls |-> << >>,
              Content |-> IF out.final # << >> THEN "final"
                          ELSE IF text # << >> THEN "text" ELSE "(empty response)",
              FinishReason |-> "stop"]

InitNoCompat ==
  /\ compatText = << >>
  /\ compatResp = NoResp

InitNoStrikes == strikes = [k \in Keys |-> 0]

NoQuery == [called |-> FALSE, needFC |-> FALSE, needThinking |-> FALSE,
            needVision |-> FALSE, model |-> "", result |-> {}]

InitNoQuery == capQuery = NoQuery

\* no pass is running; requests: GET /v1/models sent to each source in the pass
IdlePass == [phase |-> "idle", n |-> 0, pending |-> {},
             requests |-> [s \in SourceIDs |-> 0]]

\* values of Source.BaseURL: the second has a space in its host name, which
\* url.Parse rejects
BaseURLs == {"http://upstream", "http://up stream"}

InitNoPass ==
  /\ pass = IdlePass
  /\ autoDetect = [s \in SourceIDs |-> FALSE]
  /\ baseURL = [s \in SourceIDs |-> "http://upstream"]

\* config.HealthCheckConfig, the fields the checker reads
HealthCheckConfig(enabled, interval, timeout) ==
  [Enabled |-> enabled, Interval |-> interval, Timeout |-> timeout]

\* the checker as NewHealthChecker builds it over &cfg.HealthCheck, before
\* Start. cfgs: the HealthCheckConfig structs by address, 1 the one inside the
\* process's Config, 2 one a caller built; cfg: the address in h.cfg;
\* ctxDone: h.ctx is cancelled; loops: goroutines inside run; pc: where the
\* running UpdateConfig or Stop call is; update, test: the last UpdateConfig
\* and TestConnection calls
IdleMonitor ==
  [cfgs |-> <<HealthCheckConfig(FALSE, 1, 1), HealthCheckConfig(FALSE, 1, 1)>>,
   cfg |-> 1, ctxDone |-> FALSE, loops |-> 0, pc |-> "idle",
   update |-> [called |-> FALSE, caller |-> "", before |-> HealthCheckConfig(FALSE, 1, 1),
               after |-> HealthCheckConfig(FALSE, 1, 1), restarted |-> FALSE],
   test |-> [called |-> FALSE, reachable |-> FALSE, ok |-> FALSE]]

\* no chat-completions request is being stepped through
IdleFlow ==
  [pc |-> "idle", n |-> 0, managed |-> FALSE, maxRetries |-> 0, attempt |-> 0,
   token |-> FALSE, cancelled |-> FALSE, bound |-> FALSE, path |-> "", result |-> "",
   pending |-> <<>>, final |-> FALSE, lastError |-> FALSE, events |-> <<>>,
   rows |-> 0, answer |-> ""]

\* Config, by the fields of Routing.Failover and HealthCheck the handlers read
ConfigValue(enabled, maxRetries, threshold) ==
  [Enabled |-> enabled, MaxRetries |-> maxRetries, FailureThreshold |-> threshold]

\* the configuration at rest: nobody writes it, nobody has read it
IdleConfig ==
  [cur |-> ConfigValue(TRUE, 2, 3), versions |-> {ConfigValue(TRUE, 2, 3)},
   update |-> ConfigValue(TRUE, 2, 3), writer |-> "idle", updates |-> 0,
   reader |-> [pc |-> "idle", maxRetries |-> 0, enabled |-> FALSE, threshold |-> 0]]

\* DetectTool was not called
NoDetect == [called |-> FALSE, client |-> << >>, agent |-> << >>, tool |-> << >>]

\* no tools-bearing attempt is under way
IdleXlate == [pc |-> "idle", src |-> 0, model |-> "", translatorFC |-> FALSE,
              executorFC |-> FALSE, hasTools |-> FALSE, hasPrompt |-> FALSE,
              rewrites |-> 0]

\* nobody is updating a status
NoUpdaters ==
  [base |-> [State |-> "healthy", ConsecutiveFail |-> 0, ErrorCount |-> 0],
   live |-> [State |-> "healthy", ConsecutiveFail |-> 0, ErrorCount |-> 0],
   by |-> << >>]

\* every upstream answers
AllUp == [down |-> {}, outages |-> 0]

\* no admission call was observed
NoAdmissions == [stamps |-> << >>, refused |-> FALSE]

InitNoLast ==
  /\ picks = << >>
  /\ detect = NoDetect
  /\ xlate = IdleXlate
  /\ admissions = [k \in Keys |-> NoAdmissions]
  /\ updaters = NoUpdaters
  /\ upstream = AllUp

InitNoMiddle == monitor = IdleMonitor /\ flow = IdleFlow /\ config = IdleConfig

InitNoLate == InitNoMiddle /\ InitNoLast

InitNoEdgeButLate ==
  /\ InitNoAccessor
  /\ InitNoCompat
  /\ InitNoStrikes
  /\ InitNoQuery
  /\ InitNoPass

InitNoEdge == InitNoEdgeButLate

\* ------------------------------------------------ direct callers of Enter
IdleCaller == [pc |-> "idle", key |-> "k1", allowed |-> FALSE, reason |-> "",
               once |-> FALSE, calls |-> 0, decs |-> 0]

InitLimiter ==
  /\ now = 0
  /\ limits \in [Keys -> KeyLimits]
  /\ windows = [k \in Keys |-> <<>>]
  /\ dailyCount = [dk \in DateKeys |-> 0]
  /\ concurrent = [k \in Keys |-> 0]
  /\ errorCount = [k \in Keys |-> 0]
  /\ autoBanned = [k \in Keys |-> NoBan]

NewReq == [pc |-> "new", keyID |-> "", tool |-> "unknown", holding |-> FALSE,
           exit |-> "", status |-> 0]

InitCallers == callers = [c \in Callers |-> IdleCaller]

\* no HTTP traffic: the limiter is driven by direct calls only
InitNoHTTP ==
  /\ serverAPIKey = "sk-static"
  /\ keyEnabled = [k \in Keys |-> TRUE]
  /\ allowedTools = [k \in Keys |-> {}]
  /\ reqs = [r \in Reqs |-> NewReq]

Init ==
  /\ InitLimiter
  /\ InitCallers
  /\ InitNoLate
  /\ InitNoEdge
  /\ InitNoHTTP
  /\ InitNoRouting

\* the clock advances
Tick ==
  /\ now < MaxTime
  /\ now' = now + 1
  /\ UNCHANGED <<limits, limiterVars, callers, httpVars, planeVars>>

\* ok, reason, release := rl.Enter(keyID, limits, tool)
Enter(c, k, tool) ==
  /\ callers[c].pc = "idle"
  /\ LET out == EnterOutcome(k, limits[k], tool, now, windows, dailyCount, concurrent)
     IN /\ windows' = out.windows
        /\ dailyCount' = out.dailyCount
        /\ concurrent' = out.concurrent
        /\ callers' = [callers EXCEPT ![c] =
             [pc |-> "holding", key |-> k, allowed |-> out.allowed,
              reason |-> out.reason, once |-> FALSE, calls |-> 0, decs |-> 0]]
  /\ UNCHANGED <<now, limits, errorCount, autoBanned, httpVars, planeVars>>

\* one invocation of the release closure: once.Do(func() { ... })
ReleaseEffect(cl, lim, cc) ==
  IF cl.once THEN [caller |-> [cl EXCEPT !.calls = @ + 1], concurrent |-> cc]
  ELSE IF lim.Concurrent <= 0
    THEN [caller |-> [cl EXCEPT !.calls = @ + 1, !.once = TRUE], concurrent |-> cc]
  ELSE IF cc[cl.key] > 0
    THEN [caller |-> [cl EXCEPT !.calls = @ + 1, !.once = TRUE, !.decs = @ + 1],
          concurrent |-> [cc EXCEPT ![cl.key] = @ - 1]]
    ELSE [caller |-> [cl EXCEPT !.calls = @ + 1, !.once = TRUE], concurrent |-> cc]

\* release()
Release(c) ==
  /\ callers[c].pc = "holding"
  /\ callers[c].calls < MaxReleaseCalls
  /\ LET out == ReleaseEffect(callers[c], limits[callers[c].key], concurrent)
     IN /\ callers' = [callers EXCEPT ![c] = out.caller]
        /\ concurrent' = out.concurrent
  /\ UNCHANGED <<now, limits, windows, dailyCount, errorCount, autoBanned, httpVars, planeVars>>

\* the caller returns and its closure goes out of scope; an admitted caller
\* has invoked release at least once by then
Return(c) ==
  /\ callers[c].pc \in {"holding", "checked"}
  /\ ~callers[c].allowed \/ callers[c].calls >= 1 \/ callers[c].pc = "checked"
  /\ callers' = [callers EXCEPT ![c] = IdleCaller]
  /\ UNCHANGED <<now, limits, limiterVars, httpVars, planeVars>>

\* allowed, reason := rl.AllowWithTool(keyID, limits, tool)
AllowWithTool(c, k, tool) ==
  /\ callers[c].pc = "idle"
  /\ LET out == AllowWithToolOutcome(k, limits[k], tool, now, windows, dailyCount)
     IN /\ windows' = out.windows
        /\ dailyCount' = out.dailyCount
        /\ callers' = [callers EXCEPT ![c] =
             [pc |-> "checked", key |-> k, allowed |-> out.allowed,
              reason |-> out.reason, once |-> FALSE, calls |-> 0, decs |-> 0]]
  /\ UNCHANGED <<now, limits, concurrent, errorCount, autoBanned, httpVars, planeVars>>

Next ==
  \/ Tick
  \/ \E c \in Callers, k \in Keys, tool \in Tools : Enter(c, k, tool)
  \/ \E c \in Callers : Release(c)
  \/ \E c \in Callers : Return(c)
  \/ \E c \in Callers, k \in Keys, tool \in Tools : AllowWithTool(c, k, tool)

Spec == Init /\ [][Next]_vars

\* ------------------------------------------------------------- auto-ban
\* RecordError arming the ban one error late
RecordErrorEffectAboveThreshold(k, t, ec, ab) ==
  LET e == ec[k] + 1
  IN [errorCount |-> [ec EXCEPT ![k] = e],
      autoBanned |-> IF e > AutoBanThreshold THEN [ab EXCEPT ![k] = t] ELSE ab,
      banned |-> e > AutoBanThreshold]

\* RateLimiter.RecordError under r.mu
RecordErrorEffect(k, t, ec, ab) ==
  LET e == ec[k] + 1
  IN [errorCount |-> [ec EXCEPT ![k] = e],
      autoBanned |-> IF e >= AutoBanThreshold THEN [ab EXCEPT ![k] = t] ELSE ab,
      banned |-> e >= AutoBanThreshold]

\* RateLimiter.RecordSuccess under r.mu
RecordSuccessEffect(k, ec) == [ec EXCEPT ![k] = 0]

\* RateLimiter.IsAutoBanned under r.mu: an expired ban is deleted with the
\* error count
IsAutoBannedOutcome(k, t, ab, ec) ==
  IF ab[k] = NoBan THEN [banned |-> FALSE, autoBanned |-> ab, errorCount |-> ec]
  ELSE IF t - ab[k] >= AutoBanDuration
    THEN [banned |-> FALSE, autoBanned |-> [ab EXCEPT ![k] = NoBan],
          errorCount |-> [ec EXCEPT ![k] = 0]]
    ELSE [banned |-> TRUE, autoBanned |-> ab, errorCount |-> ec]

\* the ban of k is armed and AutoBanDuration has not elapsed at time t
BanActive(k, t, ab) == ab[k] # NoBan /\ t - ab[k] < AutoBanDuration
BanExpired(k, t, ab) == ab[k] # NoBan /\ t - ab[k] >= AutoBanDuration

\* rl.RecordError(keyID)
RecordError(k) ==
  /\ errorCount[k] < AutoBanThreshold + MaxExtraErrors
  /\ LET out == RecordErrorEffect(k, now, errorCount, autoBanned)
     IN /\ errorCount' = out.errorCount
        /\ autoBanned' = out.autoBanned
  /\ UNCHANGED <<now, limits, windows, dailyCount, concurrent, callers, httpVars, planeVars>>

\* rl.RecordSuccess(keyID)
RecordSuccess(k) ==
  /\ errorCount' = RecordSuccessEffect(k, errorCount)
  /\ UNCHANGED <<now, limits, windows, dailyCount, concurrent, autoBanned, callers,
                 httpVars, planeVars>>

\* rl.IsAutoBanned(keyID)
IsAutoBanned(k) ==
  /\ LET out == IsAutoBannedOutcome(k, now, autoBanned, errorCount)
     IN /\ errorCount' = out.errorCount
        /\ autoBanned' = out.autoBanned
  /\ UNCHANGED <<now, limits, windows, dailyCount, concurrent, callers, httpVars, planeVars>>

\* the clock advances by half a ban duration
BanTick ==
  /\ now + BanStep <= MaxBanSteps * BanStep
  /\ now' = now + BanStep
  /\ UNCHANGED <<limits, limiterVars, callers, httpVars, planeVars>>

\* credentials limited in concurrency only
ConcurrentOnlyLimits ==
  { lim \in KeyLimits : lim.RPM = 0 /\ lim.DailyQuota = 0 /\ lim.ToolQuotas = NoQuotas }

InitBan ==
  /\ InitLimiter
  /\ limits \in [Keys -> ConcurrentOnlyLimits]
  /\ InitCallers
  /\ InitNoLate
  /\ InitNoEdge
  /\ InitNoHTTP
  /\ InitNoRouting

NextBan ==
  \/ BanTick
  \/ \E k \in Keys : RecordError(k)
  \/ \E k \in Keys : RecordSuccess(k)
  \/ \E k \in Keys : IsAutoBanned(k)
  \/ \E c \in Callers, k \in Keys, tool \in Tools : Enter(c, k, tool)
  \/ \E c \in Callers : Release(c)
  \/ \E c \in Callers : Return(c)

SpecBan == InitBan /\ [][NextBan]_vars

\* ------------------------------------- error accounting of a credential
\* logRequest: h.rateLimiter.RecordError(clientInfo.KeyID), counted
RecordErrorCounted(k) ==
  /\ errorCount[k] < AutoBanThreshold + MaxExtraErrors
  /\ LET out == RecordErrorEffect(k, now, errorCount, autoBanned)
     IN /\ errorCount' = out.errorCount
        /\ autoBanned' = out.autoBanned
  /\ strikes' = [strikes EXCEPT ![k] = @ + 1]
  /\ UNCHANGED <<now, strikeFrame>>

\* logRequest, logStreamRequest: h.rateLimiter.RecordSuccess(clientInfo.KeyID)
RecordSuccessCounted(k) ==
  /\ errorCount' = RecordSuccessEffect(k, errorCount)
  /\ strikes' = [strikes EXCEPT ![k] = 0]
  /\ UNCHANGED <<now, autoBanned, strikeFrame>>

\* time passes between two calls
StrikeTick ==
  /\ now + BanStep <= MaxBanSteps * BanStep
  /\ now' = now + BanStep
  /\ UNCHANGED <<errorCount, autoBanned, strikes, strikeFrame>>

InitStrikes ==
  /\ InitLimiter
  /\ limits \in [Keys -> ConcurrentOnlyLimits]
  /\ InitCallers
  /\ InitNoLate
  /\ InitNoEdge
  /\ InitNoHTTP
  /\ InitNoRouting

NextStrikes ==
  \/ StrikeTick
  \/ \E k \in Keys : RecordErrorCounted(k)
  \/ \E k \in Keys : RecordSuccessCounted(k)

SpecStrikes == InitStrikes /\ [][NextStrikes]_vars

\* ------------------------------------------- auth middleware and handler
ManagedToken == "sk-fa-k1"
StaticToken == "sk-static"
Tokens == {"", ManagedToken, StaticToken, "bogus"}
ReqTools == {"cursor", "unknown"}
Outcomes == {"success", "allFailed", "streamAbort", "panic"}

\* st.GetAPIKeyByKey(token): the managed credential with that secret, if any
KeyOfToken(token) == IF token = ManagedToken THEN "k1" ELSE ""

\* AuthMiddleware without the check of the allowed tools
AuthDecisionAnyTool(apiKey, token, tool, enabled, allowed) ==
  IF apiKey = "" THEN "skip"
  ELSE IF token = "" THEN "401 missing_api_key"
  ELSE IF KeyOfToken(token) # ""
    THEN IF ~enabled[KeyOfToken(token)] THEN "403 key_disabled" ELSE "managed"
  ELSE IF token # apiKey THEN "401 invalid_api_key"
  ELSE "static"

\* AuthMiddleware up to the rate-limit block: where the request goes
AuthDecision(apiKey, token, tool, enabled, allowed) ==
  IF apiKey = "" THEN "skip"
  ELSE IF token = "" THEN "401 missing_api_key"
  ELSE IF KeyOfToken(token) # ""
    THEN IF ~enabled[KeyOfToken(token)] THEN "403 key_disabled"
         ELSE IF allowed[KeyOfToken(token)] # {} /\ tool \notin allowed[KeyOfToken(token)]
           THEN "403 tool_not_allowed"
         ELSE "managed"
  ELSE IF token # apiKey THEN "401 invalid_api_key"
  ELSE "static"

\* the middleware: tool detection, key lookup, enabled and allowed-tool checks
\* and, for a managed credential, rateLimiter.IsAutoBanned
Authenticate(r, token, tool) ==
  /\ reqs[r].pc = "new"
  /\ LET d == AuthDecision(serverAPIKey, token, tool, keyEnabled, allowedTools)
         k == KeyOfToken(token)
     IN IF d = "managed"
          THEN LET out == IsAutoBannedOutcome(k, now, autoBanned, errorCount)
               IN /\ errorCount' = out.errorCount
                  /\ autoBanned' = out.autoBanned
                  /\ reqs' = [reqs EXCEPT ![r] =
                       IF out.banned
                         THEN [@ EXCEPT !.pc = "rejected", !.tool = tool, !.status = 403,
                                        !.exit = "key_auto_banned"]
                         ELSE [@ EXCEPT !.pc = "limit", !.tool = tool, !.keyID = k]]
          ELSE /\ UNCHANGED <<errorCount, autoBanned>>
               /\ reqs' = [reqs EXCEPT ![r] =
                    IF d \in {"skip", "static"}
                      THEN [@ EXCEPT !.pc = "handler", !.tool = tool]
                      ELSE [@ EXCEPT !.pc = "rejected", !.tool = tool,
                                     !.status = IF d = "403 key_disabled"
                                                   \/ d = "403 tool_not_allowed"
                                                  THEN 403 ELSE 401,
                                     !.exit = d]]
  /\ UNCHANGED <<now, limits, windows, dailyCount, concurrent, callers, authVars, planeVars>>

\* the middleware: rateLimiter.AllowWithTool, then 429 or c.Next()
Admit(r) ==
  /\ reqs[r].pc = "limit"
  /\ LET k == reqs[r].keyID
         out == AllowWithToolOutcome(k, limits[k], reqs[r].tool, now, windows, dailyCount)
     IN /\ windows' = out.windows
        /\ dailyCount' = out.dailyCount
        /\ reqs' = [reqs EXCEPT ![r] =
             IF out.allowed THEN [@ EXCEPT !.pc = "handler"]
             ELSE [@ EXCEPT !.pc = "rejected", !.status = 429,
                            !.exit = "rate_limit_exceeded"]]
  /\ UNCHANGED <<now, limits, concurrent, errorCount, autoBanned, callers, authVars, planeVars>>

\* RateLimiter.AcquireConcurrent
AcquireConcurrentEffect(k, cc) == [cc EXCEPT ![k] = @ + 1]

\* RateLimiter.ReleaseConcurrent
ReleaseConcurrentEffect(k, cc) == IF cc[k] > 0 THEN [cc EXCEPT ![k] = @ - 1] ELSE cc

\* ChatCompletions: ShouldBindJSON, then "Concurrent tracking"
HandlerStart(r, validJSON) ==
  /\ reqs[r].pc = "handler"
  /\ IF ~validJSON
       THEN /\ reqs' = [reqs EXCEPT ![r] = [@ EXCEPT !.pc = "done", !.status = 400,
                                                     !.exit = "invalid_request"]]
            /\ UNCHANGED concurrent
       ELSE IF reqs[r].keyID # ""
         THEN /\ concurrent' = AcquireConcurrentEffect(reqs[r].keyID, concurrent)
              /\ reqs' = [reqs EXCEPT ![r] = [@ EXCEPT !.pc = "executing",
                                                       !.holding = TRUE]]
         ELSE /\ reqs' = [reqs EXCEPT ![r] = [@ EXCEPT !.pc = "executing"]]
              /\ UNCHANGED concurrent
  /\ UNCHANGED <<now, limits, windows, dailyCount, errorCount, autoBanned, callers,
                 authVars, planeVars>>

\* a handler whose release is a plain call at the end of the function body:
\* a panic unwinds past it
PcAfterExitNoDefer(outcome, holding) ==
  IF holding /\ outcome # "panic" THEN "deferred" ELSE "done"

\* where the handler goes when its body ends: the release was deferred, so
\* every exit of a request that acquired runs it
PcAfterExit(outcome, holding) == IF holding THEN "deferred" ELSE "done"

StatusOf(outcome) == IF outcome \in {"success", "streamAbort"} THEN 200 ELSE 500

\* the handler body ends: served (logRequest/logStreamRequest record a success),
\* all sources failed (logRequest records an error), the stream broke after
\* its first bytes (return true, nothing recorded), or a panic
HandlerFinish(r, outcome) ==
  /\ reqs[r].pc = "executing"
  /\ LET k == reqs[r].keyID
     IN IF k # "" /\ outcome = "success"
          THEN /\ errorCount' = RecordSuccessEffect(k, errorCount)
               /\ UNCHANGED autoBanned
        ELSE IF k # "" /\ outcome = "allFailed"
          THEN LET out == RecordErrorEffect(k, now, errorCount, autoBanned)
               IN /\ errorCount' = out.errorCount
                  /\ autoBanned' = out.autoBanned
        ELSE UNCHANGED <<errorCount, autoBanned>>
  /\ reqs' = [reqs EXCEPT ![r] = [@ EXCEPT !.pc = PcAfterExit(outcome, reqs[r].holding),
                                          !.exit = outcome,
                                          !.status = StatusOf(outcome)]]
  /\ UNCHANGED <<now, limits, windows, dailyCount, concurrent, callers, authVars, planeVars>>

\* defer h.rateLimiter.ReleaseConcurrent(clientInfo.KeyID)
DeferredRelease(r) ==
  /\ reqs[r].pc = "deferred"
  /\ concurrent' = ReleaseConcurrentEffect(reqs[r].keyID, concurrent)
  /\ reqs' = [reqs EXCEPT ![r] = [@ EXCEPT !.pc = "done", !.holding = FALSE]]
  /\ UNCHANGED <<now, limits, windows, dailyCount, errorCount, autoBanned, callers,
                 authVars, planeVars>>

\* credentials with an RPM and a concurrency limit, no quotas
RateOnlyLimits ==
  { lim \in KeyLimits : lim.DailyQuota = 0 /\ lim.ToolQuotas = NoQuotas }

InitHTTP ==
  /\ now = 0
  /\ limits \in [Keys -> RateOnlyLimits]
  /\ windows = [k \in Keys |-> <<>>]
  /\ dailyCount = [dk \in DateKeys |-> 0]
  /\ concurrent = [k \in Keys |-> 0]
  /\ errorCount \in [Keys -> {0, AutoBanThreshold - 1}]
  /\ autoBanned = [k \in Keys |-> NoBan]
  /\ InitCallers
  /\ InitNoLate
  /\ InitNoEdge
  /\ serverAPIKey \in {"", StaticToken}
  /\ keyEnabled \in [Keys -> BOOLEAN]
  /\ allowedTools \in [Keys -> {{}, {"cursor"}}]
  /\ reqs = [r \in Reqs |-> NewReq]
  /\ InitNoRouting

NextHTTP ==
  \/ Tick
  \/ \E r \in Reqs, token \in Tokens, tool \in ReqTools : Authenticate(r, token, tool)
  \/ \E r \in Reqs : Admit(r)
  \/ \E r \in Reqs, validJSON \in BOOLEAN : HandlerStart(r, validJSON)
  \/ \E r \in Reqs, outcome \in Outcomes : HandlerFinish(r, outcome)
  \/ \E r \in Reqs : DeferredRelease(r)

SpecHTTP == InitHTTP /\ [][NextHTTP]_vars

\* --------------------------------------------------------------- router
\* src, err := router.RouteRequest(req, exclude)
RouteRequest(req, exclude, order) ==
  /\ \E out \in { RouteRequestOutcome(order, sources, status, strategy, rrIndex, req,
                                      exclude) } :
        /\ out.rr <= MaxRR
        /\ rrIndex' = out.rr
        /\ routed' = RouteRecord(req, exclude, out)
  /\ UNCHANGED <<now, limits, limiterVars, callers, httpVars, edgeVars, registryVars, strategy,
                 call, logs, probeVars>>

\* router.SetStrategy(s)
SetStrategy(s) ==
  /\ strategy # s
  /\ strategy' = s
  /\ UNCHANGED <<now, limits, limiterVars, callers, httpVars, edgeVars, registryVars, rrIndex,
                 routed, call, logs, probeVars>>

InitRouter ==
  /\ InitLimiter
  /\ InitCallers
  /\ InitNoLate
  /\ InitNoEdge
  /\ InitNoHTTP
  /\ \E reg \in [SourceIDs -> Registrations] :
       /\ sources = [s \in SourceIDs |-> reg[s].cfg]
       /\ status = [s \in SourceIDs |-> reg[s].st]
  /\ limits = [k \in Keys |-> [RPM |-> 0, DailyQuota |-> 0, Concurrent |-> 0,
                               ToolQuotas |-> NoQuotas]]
  /\ failureThreshold = 3
  /\ failover = [Enabled |-> TRUE, MaxRetries |-> 2]
  /\ strategy = "priority"
  /\ rrIndex = 0
  /\ routed = NoRoute
  /\ call = IdleCall
  /\ logs = <<>>
  /\ failStreak = [s \in SourceIDs |-> 0]
  /\ recoveredFrom = [s \in SourceIDs |-> 0]

NextRouter ==
  \/ \E req \in RouteRequests, exclude \in ExcludeLists, order \in Orders :
       RouteRequest(req, exclude, order)
  \/ \E s \in Strategies : SetStrategy(s)

SpecRouter == InitRouter /\ [][NextRouter]_vars

\* ------------------------------------------------------- proxy executor
\* "maxRetries := cfg.Routing.Failover.MaxRetries; if !Enabled { maxRetries = 0 }"
EffectiveMaxRetries(fo) == IF fo.Enabled THEN fo.MaxRetries ELSE 0

\* ProxyHandler.updateSourceLatency
UpdateSourceLatencyEffect(st, lat, failed, threshold) ==
  IF failed
    THEN [st EXCEPT !.Latency = lat,
                    !.ConsecutiveFail = @ + 1,
                    !.LastError = "error",
                    !.State = IF st.ConsecutiveFail + 1 >= threshold
                                THEN "unhealthy" ELSE @]
    ELSE [st EXCEPT !.Latency = lat, !.ConsecutiveFail = 0, !.State = "healthy"]

\* the row built by logRequest and logStreamRequest
LogRow(rid, statusCode, source, failoverFrom, fcCompatUsed) ==
  [rid |-> rid, success |-> statusCode = 200, statusCode |-> statusCode,
   source |-> source, failoverFrom |-> failoverFrom, fcCompatUsed |-> fcCompatUsed]

\* what the handler is asked to route
RouteArgs(cl) ==
  [model |-> cl.model, hasTools |-> cl.hasTools, hasThinking |-> FALSE,
   hasVision |-> FALSE]

\* "if req.HasTools() && !sourceSupportsFC(src, req.Model)" ... "if req.Stream"
PathOf(cl, id) ==
  IF cl.hasTools /\ ~SourceSupportsFC(sources[id], status[id], cl.model) THEN "compat"
  ELSE IF cl.stream THEN "stream"
  ELSE "normal"

\* how an attempt on a source may end, by path. transportError and non200 are
\* reported to updateSourceLatency; bodyError (ReadAll, Unmarshal) and
\* buildError return false without it; midStreamError is the read error after
\* the SSE headers were set
PathResults(path) ==
  CASE path = "normal" -> {"ok", "transportError", "non200", "bodyError"}
    [] path = "stream" -> {"ok", "transportError", "non200", "midStreamError"}
    [] OTHER -> {"ok", "transportError", "buildError"}

\* c.ShouldBindJSON succeeded: the handler enters the retry loop
StartRequest(modelName, hasTools, stream) ==
  /\ call.pc \in {"idle", "done"}
  /\ call.rid < MaxCalls
  /\ call' = [IdleCall EXCEPT !.pc = "loop", !.rid = call.rid + 1, !.model = modelName,
                              !.hasTools = hasTools, !.stream = stream]
  /\ UNCHANGED <<now, limits, limiterVars, callers, httpVars, edgeVars, registryVars, routerVars,
                 logs, probeVars>>

\* one iteration of the loop in which RouteRequest returns an error: break,
\* then logRequest with status 500 and the 500 answer
AttemptNoSource(order) ==
  /\ call.pc = "loop"
  /\ \E out \in { RouteRequestOutcome(order, sources, status, strategy, rrIndex,
                                      RouteArgs(call), call.tried) } :
        /\ ~out.ok
        /\ rrIndex' = out.rr
        /\ routed' = RouteRecord(RouteArgs(call), call.tried, out)
  /\ logs' = Append(logs, LogRow(call.rid, 500, NoSource, call.failoverFrom, FALSE))
  /\ call' = [call EXCEPT !.pc = "done", !.statusCode = 500,
                          !.errorCode = "all_sources_failed"]
  /\ UNCHANGED <<now, limits, limiterVars, callers, httpVars, edgeVars, registryVars, strategy,
                 probeVars>>

\* the handle function returns false without anything sent to the client
HandleReturnsFalseOnReadError(result) == result # "ok"

\* the value handleNormalRequest, handleStreamRequest and handleFCCompatRequest
\* return: false, and the loop goes on, unless the attempt was served or the
\* stream was already being forwarded
HandleReturnsFalse(result) == result \notin {"ok", "midStreamError"}

\* one iteration of the loop on the source RouteRequest returned: the attempt
\* is served (the handle function returns true) or fails over. wrote: at least
\* one "data:" line was forwarded before the stream ended
Attempt(order, lat) ==
  /\ call.pc = "loop"
  /\ \E out \in { RouteRequestOutcome(order, sources, status, strategy, rrIndex,
                                      RouteArgs(call), call.tried) } :
        /\ out.ok
        /\ out.rr <= MaxRR
        /\ rrIndex' = out.rr
        /\ routed' = RouteRecord(RouteArgs(call), call.tried, out)
        /\ \E path \in { PathOf(call, out.id) }, wrote \in BOOLEAN :
           \E result \in PathResults(path) :
             LET id == out.id
                 reported == result \in {"transportError", "non200"}
                 exhausted == call.attempt + 1 > EffectiveMaxRetries(failover)
             IN /\ wrote => (path = "stream" /\ result \in {"ok", "midStreamError"})
                /\ reported => status[id].ConsecutiveFail < MaxFails
                /\ status' = IF result = "ok" \/ reported
                               THEN [status EXCEPT ![id] =
                                       UpdateSourceLatencyEffect(@, lat, reported,
                                                                 failureThreshold)]
                               ELSE status
                /\ IF result = "ok"
                     THEN /\ logs' = Append(logs, LogRow(call.rid, 200, id, call.failoverFrom,
                                                         path = "compat"))
                          /\ call' = [call EXCEPT
                                        !.pc = "done", !.statusCode = 200, !.path = path,
                                        !.tried = Append(@, id), !.result = result,
                                        !.written = wrote \/ (path = "compat" /\ call.stream)]
                   ELSE IF ~HandleReturnsFalse(result)
                     THEN /\ logs' = logs
                          /\ call' = [call EXCEPT
                                        !.pc = "done", !.statusCode = 200, !.path = path,
                                        !.tried = Append(@, id), !.result = result,
                                        !.written = wrote]
                   ELSE IF exhausted
                     THEN /\ logs' = Append(logs, LogRow(call.rid, 500, NoSource, id, FALSE))
                          /\ call' = [call EXCEPT
                                        !.pc = "done", !.statusCode = 500, !.path = path,
                                        !.tried = Append(@, id), !.attempt = @ + 1,
                                        !.failoverFrom = id, !.result = result,
                                        !.written = call.written \/ wrote,
                                        !.errorCode = "all_sources_failed"]
                   ELSE /\ logs' = logs
                        /\ call' = [call EXCEPT
                                      !.path = path, !.tried = Append(@, id),
                                      !.attempt = @ + 1, !.failoverFrom = id,
                                      !.result = result,
                                      !.written = call.written \/ wrote]
  /\ UNCHANGED <<now, limits, limiterVars, callers, httpVars, edgeVars, sources, failureThreshold,
                 failover, strategy, probeVars>>

FailoverConfigs ==
  { [Enabled |-> FALSE, MaxRetries |-> MaxRetryBudget] } \cup
  { [Enabled |-> TRUE, MaxRetries |-> n] : n \in 1..MaxRetryBudget }

InitProxy ==
  /\ InitLimiter
  /\ limits = [k \in Keys |-> [RPM |-> 0, DailyQuota |-> 0, Concurrent |-> 0,
                               ToolQuotas |-> NoQuotas]]
  /\ InitCallers
  /\ InitNoLate
  /\ InitNoEdge
  /\ InitNoHTTP
  /\ \E reg \in [SourceIDs -> HealthyRegistrations] :
       /\ sources = [s \in SourceIDs |-> reg[s].cfg]
       /\ status = [s \in SourceIDs |-> reg[s].st]
  /\ failureThreshold \in 1..MaxThreshold
  /\ failover \in FailoverConfigs
  /\ strategy \in Strategies
  /\ rrIndex = 0
  /\ routed = NoRoute
  /\ call = IdleCall
  /\ logs = <<>>
  /\ failStreak = [s \in SourceIDs |-> 0]
  /\ recoveredFrom = [s \in SourceIDs |-> 0]

NextProxy ==
  \/ \E modelName \in ReqModels, hasTools \in BOOLEAN, stream \in BOOLEAN :
       StartRequest(modelName, hasTools, stream)
  \/ \E order \in Orders : AttemptNoSource(order)
  \/ \E order \in Orders, lat \in Latencies : Attempt(order, lat)

SpecProxy == InitProxy /\ [][NextProxy]_vars

\* -------------------------------------------------------- health checker
\* checkSource marking the source unhealthy only above the threshold
CheckSourceEffectAboveThreshold(st, lat, probeFailed, threshold) ==
  IF probeFailed
    THEN [st EXCEPT !.Latency = lat,
                    !.ConsecutiveFail = @ + 1,
                    !.LastError = "error",
                    !.State = IF st.ConsecutiveFail + 1 > threshold
                                THEN "unhealthy" ELSE @]
    ELSE [st EXCEPT !.Latency = lat, !.ConsecutiveFail = 0, !.State = "healthy",
                    !.LastError = ""]

\* HealthChecker.checkSource from the probe's result on
CheckSourceEffect(st, lat, probeFailed, threshold) ==
  IF probeFailed
    THEN [st EXCEPT !.Latency = lat,
                    !.ConsecutiveFail = @ + 1,
                    !.LastError = "error",
                    !.State = IF st.ConsecutiveFail + 1 >= threshold
                                THEN "unhealthy" ELSE @]
    ELSE [st EXCEPT !.Latency = lat, !.ConsecutiveFail = 0, !.State = "healthy",
                    !.LastError = ""]

\* checkAll reaching an enabled source: h.checkSource(s)
CheckSource(s, probeFailed, lat) ==
  /\ sources[s].Enabled
  /\ probeFailed => status[s].ConsecutiveFail < MaxFails
  /\ status' = [status EXCEPT ![s] = CheckSourceEffect(@, lat, probeFailed, failureThreshold)]
  /\ failStreak' = [failStreak EXCEPT ![s] = IF probeFailed THEN @ + 1 ELSE 0]
  /\ recoveredFrom' = [recoveredFrom EXCEPT ![s] = IF probeFailed THEN @ ELSE failStreak[s]]
  /\ UNCHANGED <<now, limits, limiterVars, callers, httpVars, edgeVars, sources, failureThreshold,
                 failover, routerVars, call, logs>>

\* sources as Load leaves them, all enabled: checkSource reads no other
\* field of the configuration
InitHealth ==
  /\ InitLimiter
  /\ limits = [k \in Keys |-> [RPM |-> 0, DailyQuota |-> 0, Concurrent |-> 0,
                               ToolQuotas |-> NoQuotas]]
  /\ InitCallers
  /\ InitNoLate
  /\ InitNoEdge
  /\ InitNoHTTP
  /\ sources = [s \in SourceIDs |->
                  SourceConfig("openai", TRUE, TRUE, TRUE, TRUE, {}, 1, 1, <<>>, "")]
  /\ status = [s \in SourceIDs |-> SourceStatus("healthy", 0, NoProviders)]
  /\ failureThreshold \in 1..MaxThreshold
  /\ failover = [Enabled |-> TRUE, MaxRetries |-> 2]
  /\ strategy = "priority"
  /\ rrIndex = 0
  /\ routed = NoRoute
  /\ call = IdleCall
  /\ logs = <<>>
  /\ failStreak = [s \in SourceIDs |-> 0]
  /\ recoveredFrom = [s \in SourceIDs |-> 0]

NextHealth ==
  \E s \in SourceIDs, probeFailed \in BOOLEAN, lat \in Latencies :
    CheckSource(s, probeFailed, lat)

SpecHealth == InitHealth /\ [][NextHealth]_vars

\* ------------------------------------------------- status accessor users
\* the heap after a step, with the unreachable cells collected
Commit(objs, maps, live, hs) ==
  /\ heapStatus' = CollectStatus(objs, StatusRefs(live, hs))
  /\ heapMaps' = CollectMaps(maps, objs, StatusRefs(live, hs))
  /\ liveStatus' = live
  /\ holders' = hs

\* Source.GetStatus: "status := *s.Status", then a new map filled from the
\* live one when the live one is not nil; the caller gets &status
GetStatus(h) ==
  /\ holders[h].pc = "idle"
  /\ LET refs == StatusRefs(liveStatus, holders)
         a == NewAddr(refs)
         m == NewAddr(MapRefs(heapStatus, refs))
         src == heapStatus[liveStatus]
         hs == [holders EXCEPT ![h] = [pc |-> "got", ptr |-> a]]
     IN  IF liveStatus = Nil
           THEN Commit([heapStatus EXCEPT ![a] = FreshStatus], heapMaps, liveStatus, hs)
           ELSE IF src.ModelProviders = Nil
             THEN Commit([heapStatus EXCEPT ![a] = src], heapMaps, liveStatus, hs)
             ELSE Commit([heapStatus EXCEPT ![a] = [src EXCEPT !.ModelProviders = m]],
                         [heapMaps EXCEPT ![m] = heapMaps[src.ModelProviders]],
                         liveStatus, hs)
  /\ UNCHANGED accessorFrame

\* Source.SetStatus: "s.Status = status", the pointer the caller passes
SetStatus(h) ==
  /\ holders[h].pc = "got"
  /\ Commit(heapStatus, heapMaps, holders[h].ptr,
            [holders EXCEPT ![h].pc = "set"])
  /\ UNCHANGED accessorFrame

\* a caller assigns a field of the status it holds: status.State = v
WriteState(h, v) ==
  /\ holders[h].ptr # Nil
  /\ Commit([heapStatus EXCEPT ![holders[h].ptr].State = v], heapMaps, liveStatus, holders)
  /\ UNCHANGED accessorFrame

\* status.ModelProviders = modelProviders, a map the caller has built
AssignModelProviders(h, entries) ==
  /\ holders[h].ptr # Nil
  /\ LET p == holders[h].ptr
         unlinked == [heapStatus EXCEPT ![p].ModelProviders = Nil]
         m == NewAddr(MapRefs(unlinked, StatusRefs(liveStatus, holders)))
     IN  Commit([heapStatus EXCEPT ![p].ModelProviders = m],
                [heapMaps EXCEPT ![m] = entries], liveStatus, holders)
  /\ UNCHANGED accessorFrame

\* status.ModelProviders[k] = v
MapInsert(h, k, v) ==
  /\ holders[h].ptr # Nil
  /\ heapStatus[holders[h].ptr].ModelProviders # Nil
  /\ LET m == heapStatus[holders[h].ptr].ModelProviders
         old == heapMaps[m]
     IN  Commit(heapStatus,
                [heapMaps EXCEPT ![m] = [x \in DOMAIN old \cup {k} |->
                                           IF x = k THEN v ELSE old[x]]],
                liveStatus, holders)
  /\ UNCHANGED accessorFrame

\* delete(status.ModelProviders, k)
MapDelete(h, k) ==
  /\ holders[h].ptr # Nil
  /\ heapStatus[holders[h].ptr].ModelProviders # Nil
  /\ LET m == heapStatus[holders[h].ptr].ModelProviders
         old == heapMaps[m]
     IN  /\ k \in DOMAIN old
         /\ Commit(heapStatus,
                   [heapMaps EXCEPT ![m] = [x \in DOMAIN old \ {k} |-> old[x]]],
                   liveStatus, holders)
  /\ UNCHANGED accessorFrame

\* the caller returns and its local goes out of scope
ReturnHolder(h) ==
  /\ holders[h].pc # "idle"
  /\ Commit(heapStatus, heapMaps, liveStatus, [holders EXCEPT ![h] = IdleHolder])
  /\ UNCHANGED accessorFrame

InitAccessor ==
  /\ InitLimiter
  /\ limits = [k \in Keys |-> [RPM |-> 0, DailyQuota |-> 0, Concurrent |-> 0,
                               ToolQuotas |-> NoQuotas]]
  /\ InitCallers
  /\ InitNoLate
  /\ InitNoHTTP
  /\ InitNoRouting
  /\ InitNoAccessor
  /\ InitNoCompat
  /\ InitNoStrikes
  /\ InitNoQuery
  /\ InitNoPass

NextAccessor ==
  \E h \in Holders :
    \/ GetStatus(h)
    \/ SetStatus(h)
    \/ \E v \in HealthStates : WriteState(h, v)
    \/ \E entries \in ProviderMaps : AssignModelProviders(h, entries)
    \/ \E k \in DetectedModels, v \in Providers : MapInsert(h, k, v)
    \/ \E k \in DetectedModels : MapDelete(h, k)
    \/ ReturnHolder(h)

SpecAccessor == InitAccessor /\ [][NextAccessor]_vars

\* ------------------------------------------------------ FC compat layer
\* handleFCCompatRequest: compatResp := buildCompatResponse(&upstreamResp)
BuildCompatResponse ==
  /\ ~compatResp.built
  /\ compatResp' = BuildCompatResponseOutcome(compatText)
  /\ UNCHANGED <<compatText, compatFrame>>

InitCompat ==
  /\ InitLimiter
  /\ limits = [k \in Keys |-> [RPM |-> 0, DailyQuota |-> 0, Concurrent |-> 0,
                               ToolQuotas |-> NoQuotas]]
  /\ InitCallers
  /\ InitNoLate
  /\ InitNoHTTP
  /\ InitNoRouting
  /\ InitNoAccessor
  /\ InitNoStrikes
  /\ InitNoQuery
  /\ InitNoPass
  /\ compatText \in ReplyTexts
  /\ compatResp = NoResp

NextCompat == BuildCompatResponse

SpecCompat == InitCompat /\ [][NextCompat]_vars

\* ---------------------------------------------------- capability query
\* sources := m.GetByCapability(needFC, needThinking, needVision, modelName)
GetByCapabilityCall(order, needFC, needThinking, needVision, modelName) ==
  /\ capQuery' = [called |-> TRUE, needFC |-> needFC, needThinking |-> needThinking,
                  needVision |-> needVision, model |-> modelName,
                  result |-> SeqToSet(GetByCapability(order, sources, status, needFC,
                                                      needThinking, needVision, modelName))]
  /\ UNCHANGED queryFrame

InitCapability ==
  /\ InitLimiter
  /\ InitCallers
  /\ InitNoLate
  /\ InitNoHTTP
  /\ InitNoAccessor
  /\ InitNoCompat
  /\ InitNoStrikes
  /\ InitNoQuery
  /\ InitNoPass
  /\ \E reg \in [SourceIDs -> Registrations] :
       /\ sources = [s \in SourceIDs |-> reg[s].cfg]
       /\ status = [s \in SourceIDs |-> reg[s].st]
  /\ limits = [k \in Keys |-> [RPM |-> 0, DailyQuota |-> 0, Concurrent |-> 0,
                               ToolQuotas |-> NoQuotas]]
  /\ failureThreshold = 3
  /\ failover = [Enabled |-> TRUE, MaxRetries |-> 2]
  /\ strategy = "priority"
  /\ rrIndex = 0
  /\ routed = NoRoute
  /\ call = IdleCall
  /\ logs = <<>>
  /\ failStreak = [s \in SourceIDs |-> 0]
  /\ recoveredFrom = [s \in SourceIDs |-> 0]

NextCapability ==
  \E order \in Orders, needFC, needThinking, needVision \in BOOLEAN, modelName \in ReqModels :
    GetByCapabilityCall(order, needFC, needThinking, needVision, modelName)

SpecCapability == InitCapability /\ [][NextCapability]_vars

\* ------------------------------------------------- health-check pass
\* model.CPAProviderCapabilities[p].Vision, false for a provider not in the matrix
CPAProviderVision(p) == p \in {"gemini", "claude", "codex", "qwen"}

\* http.NewRequestWithContext(h.ctx, "GET", src.BaseURL + "/v1/models", nil)
\* returns a request: the URL parses
NewRequestBuilds(url) == url = "http://upstream"

\* HTTP requests sent by probeSource: h.client.Do(req), reached unless the
\* request could not be built
ProbeSourceRequests(url) == IF NewRequestBuilds(url) THEN 1 ELSE 0

\* HTTP requests sent by probeAndDetectCPAModels, the same way
ProbeAndDetectRequests(url) == IF NewRequestBuilds(url) THEN 1 ELSE 0

\* "src.Type == model.SourceTypeCPA && src.CPA != nil && src.CPA.AutoDetect"
UsesCombinedProbe(src, auto) == src.Type = "cpa" /\ auto

\* checkSource probing an aggregator first and detecting its models with a
\* request of its own
CheckSourceRequestsDetectSeparately(src, auto, url) ==
  IF UsesCombinedProbe(src, auto)
    THEN ProbeSourceRequests(url) + ProbeAndDetectRequests(url)
    ELSE ProbeSourceRequests(url)

\* HTTP requests sent by one checkSource call: the combined probe for an
\* aggregator with auto_detect, the plain probe otherwise
CheckSourceRequests(src, auto, url) ==
  IF UsesCombinedProbe(src, auto)
    THEN ProbeAndDetectRequests(url)
    ELSE ProbeSourceRequests(url)

\* how a probe ends: the request is not built, the transport fails, the
\* upstream answers with another status than 200, or with 200 and a body
\* that decodes or not
ProbeOutcomes == {"buildError", "transportError", "non200", "ok", "okUndecodable"}

\* the probe returns an error
ProbeFailed(outcome) == outcome \in {"buildError", "transportError", "non200"}

\* result.Data of a decoded /v1/models reply: {id, provider} pairs
ModelLists ==
  { << >>,
    << [id |-> "m1", provider |-> "gemini"] >>,
    << [id |-> "m1", provider |-> "qwen"], [id |-> "m2", provider |-> "gemini"] >> }

\* the entries probeAndDetectCPAModels keeps: every one when no provider is
\* configured, otherwise those of an effective provider
KeptEntries(src, data) ==
  LET enabledProviders == SeqToSet(GetEffectiveCPAProviders(src))
  IN SelectSeq(data, LAMBDA e : enabledProviders = {} \/ e.provider \in enabledProviders)

\* status.ModelProviders after the detection; a later pair of the same id
\* overwrites an earlier one
DetectedProviders(src, data) ==
  LET kept == KeptEntries(src, data)
      last(id) == CHOOSE i \in DOMAIN kept :
                    /\ kept[i].id = id
                    /\ \A j \in DOMAIN kept : kept[j].id = id => j <= i
  IN [id \in { kept[i].id : i \in DOMAIN kept } |-> kept[last(id)].provider]

\* src.Capabilities after the detection
DetectedCapabilities(src, data) ==
  LET kept == KeptEntries(src, data)
      detectedModels == { kept[i].id : i \in DOMAIN kept }
      detectedProviderSet == { kept[i].provider : i \in DOMAIN kept }
  IN [src EXCEPT
        !.Models = IF detectedModels # {} THEN detectedModels ELSE @,
        !.ExtendedThinking = FALSE,
        !.FunctionCalling = IF detectedProviderSet # {}
                              THEN \E q \in detectedProviderSet : CPAProviderFC(q)
                              ELSE @,
        !.Vision = IF detectedProviderSet # {}
                     THEN \E q \in detectedProviderSet : CPAProviderVision(q)
                     ELSE @]

\* checkAll: the sources are listed and a goroutine is started for each
\* enabled one
StartPass ==
  /\ pass.phase = "idle"
  /\ pass.n < MaxPasses
  /\ pass' = [phase |-> "running", n |-> pass.n + 1,
              pending |-> { s \in SourceIDs : sources[s].Enabled },
              requests |-> [s \in SourceIDs |-> 0]]
  /\ UNCHANGED <<sources, status, autoDetect, baseURL, passFrame>>

\* one goroutine of the pass: h.checkSource(s)
CheckSourceInPass(s, outcome, data, lat) ==
  /\ pass.phase = "running"
  /\ s \in pass.pending
  /\ (outcome = "buildError") <=> ~NewRequestBuilds(baseURL[s])
  /\ LET detects == UsesCombinedProbe(sources[s], autoDetect[s]) /\ outcome = "ok"
         st == IF detects
                 THEN [status[s] EXCEPT !.ModelProviders = DetectedProviders(sources[s], data)]
                 ELSE status[s]
     IN /\ ~detects => data = << >>
        /\ status' = [status EXCEPT ![s] =
                        CheckSourceEffect(st, lat, ProbeFailed(outcome), failureThreshold)]
        /\ sources' = [sources EXCEPT ![s] =
                         IF detects THEN DetectedCapabilities(@, data) ELSE @]
  /\ pass' = [pass EXCEPT
                !.pending = @ \ {s},
                !.requests[s] = @ + CheckSourceRequests(sources[s], autoDetect[s], baseURL[s])]
  /\ UNCHANGED <<autoDetect, baseURL, passFrame>>

\* wg.Wait() returns: every goroutine of the pass is done
EndPass ==
  /\ pass.phase = "running"
  /\ pass.pending = {}
  /\ pass' = [pass EXCEPT !.phase = "idle"]
  /\ UNCHANGED <<sources, status, autoDetect, baseURL, passFrame>>

\* the sources the passes run over: configuration, auto_detect and base_url
ProbedSources ==
  { [cfg |-> SourceConfig("openai", TRUE, TRUE, TRUE, TRUE, {}, 1, 1, <<>>, ""),
     auto |-> FALSE, url |-> "http://upstream"],
    [cfg |-> SourceConfig("openai", FALSE, TRUE, TRUE, TRUE, {}, 1, 1, <<>>, ""),
     auto |-> FALSE, url |-> "http://upstream"],
    [cfg |-> SourceConfig("openai", TRUE, TRUE, TRUE, TRUE, {}, 1, 1, <<>>, ""),
     auto |-> FALSE, url |-> "http://up stream"],
    [cfg |-> SourceConfig("cpa", TRUE, FALSE, FALSE, TRUE, {}, 1, 1, <<"gemini", "qwen">>, "multi"),
     auto |-> TRUE, url |-> "http://upstream"],
    [cfg |-> SourceConfig("cpa", TRUE, FALSE, FALSE, TRUE, {}, 1, 1, <<"qwen">>, "multi"),
     auto |-> FALSE, url |-> "http://upstream"] }

InitPass ==
  /\ InitLimiter
  /\ limits = [k \in Keys |-> [RPM |-> 0, DailyQuota |-> 0, Concurrent |-> 0,
                               ToolQuotas |-> NoQuotas]]
  /\ InitCallers
  /\ InitNoLate
  /\ InitNoHTTP
  /\ InitNoAccessor
  /\ InitNoCompat
  /\ InitNoStrikes
  /\ InitNoQuery
  /\ \E reg \in [SourceIDs -> ProbedSources] :
       /\ sources = [s \in SourceIDs |-> reg[s].cfg]
       /\ autoDetect = [s \in SourceIDs |-> reg[s].auto]
       /\ baseURL = [s \in SourceIDs |-> reg[s].url]
  /\ status = [s \in SourceIDs |-> SourceStatus("healthy", 0, NoProviders)]
  /\ pass = IdlePass
  /\ failureThreshold = 3
  /\ failover = [Enabled |-> TRUE, MaxRetries |-> 2]
  /\ strategy = "priority"
  /\ rrIndex = 0
  /\ routed = NoRoute
  /\ call = IdleCall
  /\ logs = <<>>
  /\ failStreak = [s \in SourceIDs |-> 0]
  /\ recoveredFrom = [s \in SourceIDs |-> 0]

NextPass ==
  \/ StartPass
  \/ \E s \in SourceIDs, outcome \in ProbeOutcomes, data \in ModelLists, lat \in Latencies :
       CheckSourceInPass(s, outcome, data, lat)
  \/ EndPass

SpecPass == InitPass /\ [][NextPass]_vars

\* ------------------------------------------- health checker lifecycle
HealthCheckConfigs ==
  { HealthCheckConfig(e, i, t) : e \in BOOLEAN, i \in 1..MaxInterval, t \in 1..MaxInterval }

\* who calls HealthChecker.UpdateConfig: AdminHandler.UpdateConfig, which
\* passes &h.cfg.HealthCheck, or a caller with a struct of its own
UpdateCallers == {"admin", "direct"}

\* "needRestart := h.cfg.Enabled != cfg.Enabled || h.cfg.Interval != cfg.Interval",
\* both read through the pointers
NeedRestart(cfgs, own, arg) ==
  cfgs[own].Enabled # cfgs[arg].Enabled \/ cfgs[own].Interval # cfgs[arg].Interval

\* UpdateConfig up to "if needRestart". The admin handler first stores the
\* update in its Config ("h.cfg.HealthCheck = *update.HealthCheck") and passes
\* the address of that field; "*h.cfg = *cfg" then copies the argument
UpdateConfigCall(caller, new) ==
  /\ monitor.pc = "idle"
  /\ LET arg == IF caller = "admin" THEN 1 ELSE 2
         stored == [monitor.cfgs EXCEPT ![arg] = new]
         restart == NeedRestart(stored, monitor.cfg, arg)
     IN monitor' = [monitor EXCEPT
                      !.cfgs = [stored EXCEPT ![monitor.cfg] = stored[arg]],
                      !.pc = IF restart THEN "cancel" ELSE "idle",
                      !.update = [called |-> TRUE, caller |-> caller,
                                  before |-> monitor.cfgs[monitor.cfg],
                                  after |-> new, restarted |-> restart]]
  /\ UNCHANGED monitorFrame

\* HealthChecker.Stop called on its own
StopCall ==
  /\ monitor.pc = "idle"
  /\ ~monitor.ctxDone
  /\ monitor' = [monitor EXCEPT !.pc = "stopping"]
  /\ UNCHANGED monitorFrame

\* Stop: h.cancel()
Cancel ==
  /\ monitor.pc \in {"cancel", "stopping"}
  /\ monitor' = [monitor EXCEPT !.ctxDone = TRUE,
                                !.pc = IF @ = "cancel" THEN "wait" ELSE "stopWait"]
  /\ UNCHANGED monitorFrame

\* run: "case <-h.ctx.Done(): return", with the deferred h.wg.Done()
LoopExit ==
  /\ monitor.loops > 0
  /\ monitor.ctxDone
  /\ monitor' = [monitor EXCEPT !.loops = @ - 1]
  /\ UNCHANGED monitorFrame

\* Stop: h.wg.Wait() returns
WaitReturns ==
  /\ monitor.pc \in {"wait", "stopWait"}
  /\ monitor.loops = 0
  /\ monitor' = [monitor EXCEPT !.pc = IF @ = "wait" THEN "reset" ELSE "idle"]
  /\ UNCHANGED monitorFrame

\* UpdateConfig: h.resetContext()
ResetContext ==
  /\ monitor.pc = "reset"
  /\ monitor' = [monitor EXCEPT
                   !.ctxDone = FALSE,
                   !.pc = IF monitor.cfgs[monitor.cfg].Enabled THEN "start" ELSE "idle"]
  /\ UNCHANGED monitorFrame

\* UpdateConfig: h.Start()
Start ==
  /\ monitor.pc = "start"
  /\ monitor' = [monitor EXCEPT
                   !.ctxDone = IF monitor.cfgs[monitor.cfg].Enabled THEN FALSE ELSE @,
                   !.loops = IF monitor.cfgs[monitor.cfg].Enabled THEN @ + 1 ELSE @,
                   !.pc = "idle"]
  /\ UNCHANGED monitorFrame

\* the context TestConnection probes under: h.ctx, through probeSource
ProbeContextDone(mon) == mon.ctxDone

\* AdminHandler.TestSource: h.health.TestConnection(src), at any moment of the
\* checker's life. reachable: the source answers 200 to GET /v1/models
TestConnection(reachable) ==
  /\ monitor' = [monitor EXCEPT
                   !.test = [called |-> TRUE, reachable |-> reachable,
                             ok |-> reachable /\ ~ProbeContextDone(monitor)]]
  /\ UNCHANGED monitorFrame

\* NewHealthChecker(manager, &cfg.HealthCheck) followed by Start()
InitMonitor ==
  /\ InitLimiter
  /\ limits = [k \in Keys |-> [RPM |-> 0, DailyQuota |-> 0, Concurrent |-> 0,
                               ToolQuotas |-> NoQuotas]]
  /\ callers = [c \in Callers |-> IdleCaller]
  /\ InitNoHTTP
  /\ InitNoRouting
  /\ InitNoEdgeButLate
  /\ \E c \in HealthCheckConfigs :
       monitor = [IdleMonitor EXCEPT !.cfgs = <<c, c>>,
                                     !.loops = IF c.Enabled THEN 1 ELSE 0]
  /\ flow = IdleFlow
  /\ config = IdleConfig
  /\ InitNoLast

NextMonitor ==
  \/ \E caller \in UpdateCallers, new \in HealthCheckConfigs : UpdateConfigCall(caller, new)
  \/ StopCall
  \/ Cancel
  \/ LoopExit
  \/ WaitReturns
  \/ ResetContext
  \/ Start
  \/ \E reachable \in BOOLEAN : TestConnection(reachable)

SpecMonitor == InitMonitor /\ [][NextMonitor]_vars

\* ------------------------------------- one request, side effect by side effect
\* h.cfg.Routing.Failover as AdminHandler.UpdateConfig stores it: the value of
\* the request body, with no validation of max_retries
StoredFailoverConfigs ==
  FailoverConfigs \cup { [Enabled |-> TRUE, MaxRetries |-> n] : n \in {-1, 0} }

FlowPaths == {"normal", "stream", "compat"}

\* the effects a handle function has after the upstream I/O of an attempt, in
\* the order of its statements: updateSourceLatency, then logRequest or
\* logStreamRequest
EpilogueLogFirst(result) ==
  CASE result = "ok" -> <<"log", "health">>
    [] result \in {"transportError", "non200"} -> <<"health">>
    [] OTHER -> <<>>

Epilogue(result) ==
  CASE result = "ok" -> <<"health", "log">>
    [] result \in {"transportError", "non200"} -> <<"health">>
    [] OTHER -> <<>>

\* how an upstream call may end once the request context is cancelled: every
\* call made with c.Request.Context() fails, before or while the body is read
CancelledResults == {"transportError", "bodyError", "midStreamError", "buildError"}

\* AuthMiddleware admitted the request (c.Next()) and ChatCompletions starts.
\* managed: clientInfo.KeyID is not empty
StartFlow(managed, fo) ==
  /\ flow.pc \in {"idle", "done"}
  /\ flow.n < MaxCalls
  /\ flow' = [IdleFlow EXCEPT !.pc = "admitted", !.n = flow.n + 1,
                              !.managed = managed,
                              !.maxRetries = EffectiveMaxRetries(fo),
                              !.events = <<"admission">>]
  /\ UNCHANGED flowFrame

\* ChatCompletions: c.ShouldBindJSON, then AcquireConcurrent with the deferred
\* ReleaseConcurrent for a managed credential
BindAndAcquire(bindOk) ==
  /\ flow.pc = "admitted"
  /\ flow' = IF ~bindOk
               THEN [flow EXCEPT !.pc = "done", !.answer = "bad_request"]
               ELSE [flow EXCEPT !.pc = "loop", !.bound = TRUE,
                                 !.token = flow.managed,
                                 !.events = IF flow.managed THEN Append(@, "acquire")
                                            ELSE @]
  /\ UNCHANGED flowFrame

\* the head of the loop: "attempt <= maxRetries", then h.router.RouteRequest;
\* the loop is left when the budget is spent or no source is found
RouteStep(found) ==
  /\ flow.pc = "loop"
  /\ flow' = IF flow.attempt > flow.maxRetries
               THEN [flow EXCEPT !.pc = "epilogue", !.final = TRUE,
                                 !.pending = <<"log">>]
             ELSE IF ~found
               THEN [flow EXCEPT !.pc = "epilogue", !.final = TRUE,
                                 !.lastError = TRUE, !.pending = <<"log">>]
             ELSE [flow EXCEPT !.pc = "translate", !.events = Append(@, "route")]
  /\ UNCHANGED flowFrame

\* h.translator.TranslateRequest, and the branch on compat / stream / normal
TranslateStep(path) ==
  /\ flow.pc = "translate"
  /\ flow' = [flow EXCEPT !.pc = "io", !.path = path,
                          !.events = Append(@, "translate")]
  /\ UNCHANGED flowFrame

\* the upstream call of the handle function, up to the point it is decided
UpstreamIO(result) ==
  /\ flow.pc = "io"
  /\ result \in PathResults(flow.path)
  /\ flow.cancelled => result \in CancelledResults
  /\ flow' = [flow EXCEPT !.pc = "epilogue", !.result = result,
                          !.pending = Epilogue(result),
                          !.events = IF result = "buildError" THEN @
                                     ELSE Append(@, "io")]
  /\ UNCHANGED flowFrame

\* the next statement with a side effect: updateSourceLatency, or logRequest /
\* logStreamRequest with its synchronous store.SaveLog
Effect ==
  /\ flow.pc = "epilogue"
  /\ flow.pending # <<>>
  /\ flow' = [flow EXCEPT !.pending = Tail(@),
                          !.events = Append(@, Head(flow.pending)),
                          !.rows = IF Head(flow.pending) = "log" THEN @ + 1 ELSE @]
  /\ UNCHANGED flowFrame

\* the handle function returns: true ends ChatCompletions, false records the
\* failover and goes round the loop. After the loop, the 500 body is built
\* from lastError.Error(), which panics on the nil lastError of a loop that
\* never ran
HandleReturns ==
  /\ flow.pc = "epilogue"
  /\ flow.pending = <<>>
  /\ flow' = IF flow.final
               THEN [flow EXCEPT !.pc = "release",
                                 !.answer = IF flow.lastError THEN "all_sources_failed"
                                            ELSE "panic"]
             ELSE IF HandleReturnsFalse(flow.result)
               THEN [flow EXCEPT !.pc = "loop", !.attempt = @ + 1, !.lastError = TRUE]
             ELSE [flow EXCEPT !.pc = "release", !.answer = "served"]
  /\ UNCHANGED flowFrame

\* ChatCompletions returns (or unwinds): the deferred ReleaseConcurrent runs
ReleaseConcurrentDeferred ==
  /\ flow.pc = "release"
  /\ flow' = [flow EXCEPT !.pc = "done", !.token = FALSE,
                          !.events = IF flow.token THEN Append(@, "release") ELSE @]
  /\ UNCHANGED flowFrame

\* the client goes away: c.Request.Context() is cancelled
ClientDisconnect ==
  /\ flow.pc \in {"admitted", "loop", "translate", "io"}
  /\ ~flow.cancelled
  /\ flow' = [flow EXCEPT !.cancelled = TRUE]
  /\ UNCHANGED flowFrame

InitFlow ==
  /\ InitLimiter
  /\ limits = [k \in Keys |-> [RPM |-> 0, DailyQuota |-> 0, Concurrent |-> 0,
                               ToolQuotas |-> NoQuotas]]
  /\ callers = [c \in Callers |-> IdleCaller]
  /\ InitNoHTTP
  /\ InitNoRouting
  /\ InitNoEdgeButLate
  /\ monitor = IdleMonitor
  /\ flow = IdleFlow
  /\ config = IdleConfig
  /\ InitNoLast

HandlerStep ==
  \/ \E bindOk \in BOOLEAN : BindAndAcquire(bindOk)
  \/ \E found \in BOOLEAN : RouteStep(found)
  \/ \E path \in FlowPaths : TranslateStep(path)
  \/ \E result \in CancelledResults \cup {"ok", "non200"} : UpstreamIO(result)
  \/ Effect
  \/ HandleReturns
  \/ ReleaseConcurrentDeferred

NextOrder ==
  \/ \E managed \in BOOLEAN, fo \in StoredFailoverConfigs : StartFlow(managed, fo)
  \/ HandlerStep
  \/ ClientDisconnect

SpecOrder == InitFlow /\ [][NextOrder]_vars

\* the handler's goroutine keeps running until it returns
SpecOrderFair == SpecOrder /\ WF_vars(HandlerStep)

\* ------------------------------------ the configuration, written and read
ConfigValues ==
  { ConfigValue(e, n, t) : e \in BOOLEAN, n \in 1..MaxRetryBudget, t \in 1..MaxThreshold }

\* AdminHandler.UpdateConfig: the body is bound and h.cfgMu.Lock() is taken.
\* new: the configuration the update asks for
UpdateConfigLock(new) ==
  /\ config.writer = "idle"
  /\ config.updates < MaxUpdates
  /\ config' = [config EXCEPT !.writer = "routing", !.update = new,
                              !.updates = @ + 1,
                              !.versions = @ \cup {new}]
  /\ UNCHANGED configFrame

\* UpdateConfig: h.cfg.Routing = *update.Routing, on the Config the handlers
\* hold a pointer to
WriteRouting ==
  /\ config.writer = "routing"
  /\ config' = [config EXCEPT !.writer = "healthCheck",
                              !.cur.Enabled = config.update.Enabled,
                              !.cur.MaxRetries = config.update.MaxRetries]
  /\ UNCHANGED configFrame

\* UpdateConfig: h.cfg.HealthCheck = *update.HealthCheck, then config.Save and
\* the deferred h.cfgMu.Unlock()
WriteHealthCheck ==
  /\ config.writer = "healthCheck"
  /\ config' = [config EXCEPT !.writer = "idle",
                              !.cur.FailureThreshold = config.update.FailureThreshold]
  /\ UNCHANGED configFrame

\* ChatCompletions: maxRetries := h.cfg.Routing.Failover.MaxRetries, without
\* h.cfgMu
ReadMaxRetries ==
  /\ config.reader.pc = "idle"
  /\ config' = [config EXCEPT !.reader.pc = "maxRetries",
                              !.reader.maxRetries = config.cur.MaxRetries]
  /\ UNCHANGED configFrame

\* ChatCompletions: if !h.cfg.Routing.Failover.Enabled
ReadEnabled ==
  /\ config.reader.pc = "maxRetries"
  /\ config' = [config EXCEPT !.reader.pc = "enabled",
                              !.reader.enabled = config.cur.Enabled]
  /\ UNCHANGED configFrame

\* updateSourceLatency, after the upstream call of the same request:
\* h.cfg.HealthCheck.FailureThreshold
ReadFailureThreshold ==
  /\ config.reader.pc = "enabled"
  /\ config' = [config EXCEPT !.reader.pc = "done",
                              !.reader.threshold = config.cur.FailureThreshold]
  /\ UNCHANGED configFrame

\* config.Load at startup, before the handlers are built
InitConfig ==
  /\ InitLimiter
  /\ limits = [k \in Keys |-> [RPM |-> 0, DailyQuota |-> 0, Concurrent |-> 0,
                               ToolQuotas |-> NoQuotas]]
  /\ callers = [c \in Callers |-> IdleCaller]
  /\ InitNoHTTP
  /\ InitNoRouting
  /\ InitNoEdgeButLate
  /\ monitor = IdleMonitor
  /\ flow = IdleFlow
  /\ \E c \in ConfigValues : config = [IdleConfig EXCEPT !.cur = c, !.versions = {c},
                                                         !.update = c]
  /\ InitNoLast

NextConfig ==
  \/ \E new \in ConfigValues : UpdateConfigLock(new)
  \/ WriteRouting
  \/ WriteHealthCheck
  \/ ReadMaxRetries
  \/ ReadEnabled
  \/ ReadFailureThreshold

SpecConfig == InitConfig /\ [][NextConfig]_vars

\* ------------------------------------------- round-robin over a fixed pool
\* the number of consecutive calls TestRouter_RoundRobin makes
RoundRobinWindow == 10

\* a request every healthy registration is a candidate for
PlainRequest == [model |-> "", hasTools |-> FALSE, hasThinking |-> FALSE,
                 hasVision |-> FALSE]

\* r.RouteRequest(req, nil) under the round-robin strategy; order: the order in
\* which GetByCapability's range over the map m.sources visits it this time
RoundRobinCall(order) ==
  /\ Len(picks) < RoundRobinWindow
  /\ \E out \in { RouteRequestOutcome(order, sources, status, strategy, rrIndex,
                                      PlainRequest, << >>) } :
        /\ rrIndex' = out.rr
        /\ routed' = RouteRecord(PlainRequest, << >>, out)
        /\ picks' = Append(picks, out.id)
  /\ UNCHANGED <<now, limits, limiterVars, callers, httpVars, registryVars, strategy,
                 call, logs, probeVars, accessorVars, compatVars, strikeVars, queryVars,
                 passVars, middleVars, detect, xlate, admissions, tailVars>>

\* NewRouter(mgr, StrategyRoundRobin) over sources that are all candidates
InitRoundRobin ==
  /\ InitLimiter
  /\ limits = [k \in Keys |-> [RPM |-> 0, DailyQuota |-> 0, Concurrent |-> 0,
                               ToolQuotas |-> NoQuotas]]
  /\ InitCallers
  /\ InitNoLate
  /\ InitNoEdgeButLate
  /\ InitNoHTTP
  /\ \E reg \in [SourceIDs -> HealthyRegistrations] :
       /\ sources = [s \in SourceIDs |-> reg[s].cfg]
       /\ status = [s \in SourceIDs |-> reg[s].st]
  /\ failureThreshold = 3
  /\ failover = [Enabled |-> TRUE, MaxRetries |-> 2]
  /\ strategy = "round-robin"
  /\ rrIndex \in 0..MaxRR
  /\ routed = NoRoute
  /\ call = IdleCall
  /\ logs = <<>>
  /\ failStreak = [s \in SourceIDs |-> 0]
  /\ recoveredFrom = [s \in SourceIDs |-> 0]

NextRoundRobin == \E order \in Orders : RoundRobinCall(order)

SpecRoundRobin == InitRoundRobin /\ [][NextRoundRobin]_vars

\* --------------------------------------------- admissions under an RPM limit
\* credentials with an RPM limit
RPMLimits == { lim \in KeyLimits : lim.RPM > 0 }

\* one admission call on k, through Enter or through AllowWithTool, under
\* r.mu: its accounting, and its timestamp kept when it was admitted
AdmissionCall(k, tool, viaEnter) ==
  /\ Len(admissions[k].stamps) <= MaxRPM * (MaxTime + 1)
  /\ \E out \in { IF viaEnter
                    THEN EnterOutcome(k, limits[k], tool, now, windows, dailyCount,
                                      concurrent)
                    ELSE AllowWithToolOutcome(k, limits[k], tool, now, windows,
                                              dailyCount)
                           @@ [concurrent |-> concurrent] } :
        /\ windows' = out.windows
        /\ dailyCount' = out.dailyCount
        /\ concurrent' = out.concurrent
        /\ admissions' = [admissions EXCEPT ![k] =
             IF out.allowed THEN [@ EXCEPT !.stamps = Append(@, now)]
             ELSE IF out.reason = "RPM" THEN [@ EXCEPT !.refused = TRUE]
             ELSE @]
  /\ UNCHANGED <<now, limits, errorCount, autoBanned, callers, httpVars, registryVars,
                 routerVars, call, logs, probeVars, accessorVars, compatVars, strikeVars,
                 queryVars, passVars, middleVars, picks, detect, xlate, tailVars>>

InitRPM ==
  /\ InitLimiter
  /\ limits \in [Keys -> RPMLimits]
  /\ InitCallers
  /\ InitNoLate
  /\ InitNoEdge
  /\ InitNoHTTP
  /\ InitNoRouting

NextRPM ==
  \/ Tick
  \/ \E k \in Keys, tool \in Tools, viaEnter \in BOOLEAN : AdmissionCall(k, tool, viaEnter)

SpecRPM == InitRPM /\ [][NextRPM]_vars

\* -------------------------------------------------------------- DetectTool
\* header values are sequences of pieces, Blank a run of white space
\* strings.ToLower, piece by piece
ToLowerPiece(p) ==
  CASE p = "Cursor" -> "cursor"
    [] p = "My-Tool" -> "my-tool"
    [] p = "OpenAI-Python" -> "openai-python"
    [] p = "Copilot" -> "copilot"
    [] OTHER -> p

ToLower(v) == [i \in DOMAIN v |-> ToLowerPiece(v[i])]

\* values of the X-Client-Name header, << >> when it is absent
ClientNames ==
  { << >>, <<Blank>>, <<"cursor">>, <<"Cursor">>, <<Blank, "Cursor", Blank>>,
    <<"codex-cli">>, <<"my-tool">>, <<"My-Tool">>, <<"unknown">> }

\* values of the User-Agent header
UserAgents ==
  { << >>, <<"curl">>, <<"Cursor", "/1.0">>, <<"claude-code", "/2">>, <<"codex-cli">>,
    <<"continue">>, <<"Copilot">>, <<"OpenAI-Python", "/1.3">>, <<"openai-node">>,
    <<"anthropic-python">>, <<"anthropic-typescript">>, <<"continue", Blank, "Copilot">>,
    <<"Mozilla", Blank, "cursor">> }

\* the table of DetectTool, in its order: pattern and name
ToolPatterns ==
  << <<"cursor", "cursor">>, <<"claude-code", "claude-code">>,
     <<"codex-cli", "codex-cli">>, <<"continue", "continue">>,
     <<"copilot", "copilot">>, <<"openai-python", "openai-sdk">>,
     <<"openai-node", "openai-sdk">>, <<"anthropic-python", "anthropic-sdk">>,
     <<"anthropic-typescript", "anthropic-sdk">> >>

\* normalizeToolName
NormalizeToolName(name) == ToLower(TrimSpace(name, {Blank}))

\* core.DetectTool: X-Client-Name first, then the first pattern the lowered
\* User-Agent contains
DetectTool(client, agent) ==
  IF client # << >> THEN NormalizeToolName(client)
  ELSE LET ua == ToLower(agent)
           hits == { i \in DOMAIN ToolPatterns : ToolPatterns[i][1] \in SeqToSet(ua) }
       IN IF hits = {} THEN <<"unknown">>
          ELSE <<ToolPatterns[CHOOSE i \in hits : \A j \in hits : i <= j][2]>>

\* tool := core.DetectTool(c.Request.Header)
DetectToolCall(client, agent) ==
  /\ detect' = [called |-> TRUE, client |-> client, agent |-> agent,
                tool |-> DetectTool(client, agent)]
  /\ UNCHANGED <<earlyVars, middleVars, picks, xlate, admissions, tailVars>>

InitDetect ==
  /\ InitLimiter
  /\ limits = [k \in Keys |-> [RPM |-> 0, DailyQuota |-> 0, Concurrent |-> 0,
                               ToolQuotas |-> NoQuotas]]
  /\ InitCallers
  /\ InitNoLate
  /\ InitNoEdge
  /\ InitNoHTTP
  /\ InitNoRouting

NextDetect == \E client \in ClientNames, agent \in UserAgents : DetectToolCall(client, agent)

SpecDetect == InitDetect /\ [][NextDetect]_vars

\* ------------------------- a tools-bearing attempt: translate, then branch
\* what the steps of the attempt and of the monitor's detection leave alone
xlateFrame == <<now, limits, limiterVars, callers, httpVars, failureThreshold, failover,
                routerVars, call, logs, probeVars, accessorVars, compatVars, strikeVars,
                queryVars, passVars, middleVars, picks, detect, admissions, tailVars>>

\* Translator.TranslateRequest: the tools stay in the body when the source
\* supports function calling, otherwise degradeFCToPrompt clears them
TranslatorKeepsTools(src, st, modelName) ==
  IF src.Type = "cpa" THEN SupportsFCForModel(src, st, modelName)
  ELSE src.FunctionCalling

\* ChatCompletions: translatedReq := h.translator.TranslateRequest(&req, src)
\* for a request with tools routed to source s, a source GetByCapability lists
TranslateRequestStep(s, modelName) ==
  /\ xlate.pc = "idle"
  /\ sources[s].Enabled
  /\ IsHealthy(status[s])
  /\ xlate' = [xlate EXCEPT
                 !.pc = "translated", !.src = s, !.model = modelName,
                 !.translatorFC = TranslatorKeepsTools(sources[s], status[s], modelName),
                 !.hasTools = TranslatorKeepsTools(sources[s], status[s], modelName)]
  /\ UNCHANGED <<sources, status, xlateFrame>>

\* the health monitor's probeAndDetectCPAModels on s, whenever its pass gets
\* there: status.ModelProviders and src.Capabilities are rewritten in place
DetectionRewrite(s, data) ==
  /\ xlate.rewrites < MaxPasses
  /\ UsesCombinedProbe(sources[s], autoDetect[s])
  /\ status' = [status EXCEPT ![s].ModelProviders = DetectedProviders(sources[s], data)]
  /\ sources' = [sources EXCEPT ![s] = DetectedCapabilities(@, data)]
  /\ xlate' = [xlate EXCEPT !.rewrites = @ + 1]
  /\ UNCHANGED xlateFrame

\* ChatCompletions: "if req.HasTools() && !sourceSupportsFC(src, req.Model)":
\* the compat path builds its body with the synthesized system prompt and no
\* tools, the native path sends the translated body as it is
ExecutorBranch ==
  /\ xlate.pc = "translated"
  /\ \E fc \in { SourceSupportsFC(sources[xlate.src], status[xlate.src], xlate.model) } :
       xlate' = [xlate EXCEPT !.pc = "sent", !.executorFC = fc,
                              !.hasTools = IF fc THEN @ ELSE FALSE,
                              !.hasPrompt = ~fc]
  /\ UNCHANGED <<sources, status, xlateFrame>>

InitXlate ==
  /\ InitLimiter
  /\ limits = [k \in Keys |-> [RPM |-> 0, DailyQuota |-> 0, Concurrent |-> 0,
                               ToolQuotas |-> NoQuotas]]
  /\ InitCallers
  /\ InitNoLate
  /\ InitNoHTTP
  /\ InitNoAccessor
  /\ InitNoCompat
  /\ InitNoStrikes
  /\ InitNoQuery
  /\ \E reg \in [SourceIDs -> ProbedSources] :
       /\ sources = [s \in SourceIDs |-> reg[s].cfg]
       /\ autoDetect = [s \in SourceIDs |-> reg[s].auto]
       /\ baseURL = [s \in SourceIDs |-> reg[s].url]
  /\ status = [s \in SourceIDs |-> SourceStatus("healthy", 0, NoProviders)]
  /\ pass = IdlePass
  /\ failureThreshold = 3
  /\ failover = [Enabled |-> TRUE, MaxRetries |-> 2]
  /\ strategy = "priority"
  /\ rrIndex = 0
  /\ routed = NoRoute
  /\ call = IdleCall
  /\ logs = <<>>
  /\ failStreak = [s \in SourceIDs |-> 0]
  /\ recoveredFrom = [s \in SourceIDs |-> 0]

NextXlate ==
  \/ \E s \in SourceIDs, modelName \in ReqModels : TranslateRequestStep(s, modelName)
  \/ \E s \in SourceIDs, data \in ModelLists : DetectionRewrite(s, data)
  \/ ExecutorBranch

SpecXlate == InitXlate /\ [][NextXlate]_vars

\* ------------------------------ a request whose client goes away, by source
\* what the steps of such a request leave alone, beside the request itself,
\* the status of the sources and the router's record
cancelFrame == <<now, limits, limiterVars, callers, httpVars, sources, failureThreshold,
                 failover, strategy, call, logs, probeVars, accessorVars, compatVars,
                 strikeVars, queryVars, passVars, monitor, config, detect, xlate,
                 admissions, tailVars>>

\* the sources this request already tried: "excludeIDs = append(excludeIDs, src.ID)"
TriedSources == SubSeq(picks, Len(picks) - flow.attempt + 1, Len(picks))

\* the head of the loop with the router behind it: "attempt <= maxRetries",
\* then h.router.RouteRequest(&req, excludeIDs)
RouteToSource(order) ==
  /\ flow.pc = "loop"
  /\ \E out \in { RouteRequestOutcome(order, sources, status, strategy, rrIndex,
                                      PlainRequest, TriedSources) } :
       IF flow.attempt > flow.maxRetries
         THEN /\ flow' = [flow EXCEPT !.pc = "epilogue", !.final = TRUE,
                                      !.pending = <<"log">>]
              /\ UNCHANGED <<rrIndex, routed, picks>>
       ELSE IF ~out.ok
         THEN /\ flow' = [flow EXCEPT !.pc = "epilogue", !.final = TRUE,
                                      !.lastError = TRUE, !.pending = <<"log">>]
              /\ rrIndex' = out.rr
              /\ routed' = RouteRecord(PlainRequest, TriedSources, out)
              /\ UNCHANGED picks
       ELSE /\ flow' = [flow EXCEPT !.pc = "translate", !.events = Append(@, "route")]
            /\ rrIndex' = out.rr
            /\ routed' = RouteRecord(PlainRequest, TriedSources, out)
            /\ picks' = Append(picks, out.id)
  /\ UNCHANGED <<status, cancelFrame>>

\* the next statement with a side effect, on the source of this attempt:
\* h.updateSourceLatency(src, time.Since(startTime), err) changes its status
EffectOnSource(lat) ==
  /\ flow.pc = "epilogue"
  /\ flow.pending # <<>>
  /\ flow' = [flow EXCEPT !.pending = Tail(@),
                          !.events = Append(@, Head(flow.pending)),
                          !.rows = IF Head(flow.pending) = "log" THEN @ + 1 ELSE @]
  /\ status' = IF Head(flow.pending) = "health"
                 THEN [status EXCEPT ![picks[Len(picks)]] =
                         UpdateSourceLatencyEffect(@, lat, flow.result # "ok",
                                                   failureThreshold)]
                 ELSE status
  /\ UNCHANGED <<rrIndex, routed, picks, cancelFrame>>

InitCancel ==
  /\ InitLimiter
  /\ limits = [k \in Keys |-> [RPM |-> 0, DailyQuota |-> 0, Concurrent |-> 0,
                               ToolQuotas |-> NoQuotas]]
  /\ callers = [c \in Callers |-> IdleCaller]
  /\ InitNoHTTP
  /\ InitNoEdgeButLate
  /\ InitNoLate
  /\ \E reg \in [SourceIDs -> HealthyRegistrations] :
       /\ sources = [s \in SourceIDs |-> reg[s].cfg]
       /\ status = [s \in SourceIDs |-> reg[s].st]
  /\ failureThreshold \in 1..MaxThreshold
  /\ failover = [Enabled |-> TRUE, MaxRetries |-> 2]
  /\ strategy = "priority"
  /\ rrIndex = 0
  /\ routed = NoRoute
  /\ call = IdleCall
  /\ logs = <<>>
  /\ failStreak = [s \in SourceIDs |-> 0]
  /\ recoveredFrom = [s \in SourceIDs |-> 0]

NextCancel ==
  \/ \E managed \in BOOLEAN, fo \in FailoverConfigs : StartFlow(managed, fo)
  \/ \E bindOk \in BOOLEAN : BindAndAcquire(bindOk)
  \/ \E order \in Orders : RouteToSource(order)
  \/ \E path \in FlowPaths : TranslateStep(path)
  \/ \E result \in CancelledResults \cup {"ok", "non200"} : UpstreamIO(result)
  \/ \E lat \in Latencies : EffectOnSource(lat)
  \/ HandleReturns
  \/ ReleaseConcurrentDeferred
  \/ ClientDisconnect

SpecCancel == InitCancel /\ [][NextCancel]_vars

\* --------------------------- concurrent updates of one source's status
\* the goroutines that update the status of one source at the same time:
\* request handlers in updateSourceLatency, the health checker in checkSource
Updaters == 1..NUpdaters

\* what updateSourceLatency and checkSource do to the copy GetStatus returned,
\* by the fields they count in; failed: err != nil, probeErr != nil
CountFailure(st, failed, threshold) ==
  IF failed
    THEN [st EXCEPT !.ConsecutiveFail = @ + 1,
                    !.ErrorCount = @ + 1,
                    !.State = IF st.ConsecutiveFail + 1 >= threshold
                                THEN "unhealthy" ELSE @]
    ELSE [st EXCEPT !.ConsecutiveFail = 0, !.State = "healthy"]

\* the status a source may have when the updates begin
StartStatuses(threshold) ==
  { [State |-> IF cf >= threshold THEN "unhealthy" ELSE "healthy",
     ConsecutiveFail |-> cf, ErrorCount |-> cf] : cf \in 0..MaxThreshold }

\* "status := src.GetStatus()": under s.mu.RLock, a copy of the live status
ReadStatus(u) ==
  /\ updaters.by[u].pc = "start"
  /\ updaters' = [updaters EXCEPT !.by[u].pc = "read", !.by[u].copy = updaters.live]
  /\ UNCHANGED <<earlyVars, middleVars, picks, detect, xlate, admissions, upstream>>

\* the fields of the copy are changed, outside any lock, and
\* "src.SetStatus(status)" stores the copy under s.mu.Lock
WriteStatus(u) ==
  /\ updaters.by[u].pc = "read"
  /\ updaters' = [updaters EXCEPT
                    !.by[u].pc = "done",
                    !.live = CountFailure(updaters.by[u].copy, updaters.by[u].failed,
                                          failureThreshold)]
  /\ UNCHANGED <<earlyVars, middleVars, picks, detect, xlate, admissions, upstream>>

InitUpdaters ==
  /\ InitLimiter
  /\ limits = [k \in Keys |-> [RPM |-> 0, DailyQuota |-> 0, Concurrent |-> 0,
                               ToolQuotas |-> NoQuotas]]
  /\ InitCallers
  /\ InitNoHTTP
  /\ InitNoEdgeButLate
  /\ InitNoMiddle
  /\ picks = << >>
  /\ detect = NoDetect
  /\ xlate = IdleXlate
  /\ admissions = [k \in Keys |-> NoAdmissions]
  /\ upstream = AllUp
  /\ failureThreshold \in 1..MaxThreshold
  /\ \E st \in StartStatuses(failureThreshold), fs \in [Updaters -> BOOLEAN] :
       updaters = [base |-> st, live |-> st,
                   by |-> [u \in Updaters |->
                             [pc |-> "start", failed |-> fs[u], copy |-> st]]]
  /\ sources = [s \in SourceIDs |->
                  SourceConfig("openai", TRUE, TRUE, TRUE, TRUE, {}, 1, 1, <<>>, "")]
  /\ status = [s \in SourceIDs |-> SourceStatus("healthy", 0, NoProviders)]
  /\ failover = [Enabled |-> TRUE, MaxRetries |-> 2]
  /\ strategy = "priority"
  /\ rrIndex = 0
  /\ routed = NoRoute
  /\ call = IdleCall
  /\ logs = <<>>
  /\ failStreak = [s \in SourceIDs |-> 0]
  /\ recoveredFrom = [s \in SourceIDs |-> 0]

NextUpdaters == \E u \in Updaters : ReadStatus(u) \/ WriteStatus(u)

SpecUpdaters == InitUpdaters /\ [][NextUpdaters]_vars

\* ------------------------------------------- the way back to healthy
\* what the steps below leave alone
recoveryFrame == <<now, limits, limiterVars, callers, httpVars, sources, failureThreshold,
                   failover, strategy, call, logs, probeVars, accessorVars, compatVars,
                   strikeVars, queryVars, passVars, middleVars, picks, detect, xlate,
                   admissions, updaters>>

\* the upstream of s stops answering
Outage(s) ==
  /\ upstream.outages < MaxOutages
  /\ s \notin upstream.down
  /\ upstream' = [down |-> upstream.down \cup {s}, outages |-> upstream.outages + 1]
  /\ UNCHANGED <<status, rrIndex, routed, recoveryFrame>>

\* the upstream of s answers again
Restore(s) ==
  /\ s \in upstream.down
  /\ upstream' = [upstream EXCEPT !.down = @ \ {s}]
  /\ UNCHANGED <<status, rrIndex, routed, recoveryFrame>>

\* one attempt of the proxy: RouteRequest picks among the sources
\* GetByCapability lists, the enabled and healthy ones, and updateSourceLatency
\* reports how the attempt on the source ended
ProxyAttempt(order, lat) ==
  /\ \E out \in { RouteRequestOutcome(order, sources, status, strategy, rrIndex,
                                      PlainRequest, << >>) } :
       /\ rrIndex' = out.rr
       /\ routed' = RouteRecord(PlainRequest, << >>, out)
       /\ status' = IF out.ok
                      THEN [status EXCEPT ![out.id] =
                              UpdateSourceLatencyEffect(@, lat, out.id \in upstream.down,
                                                        failureThreshold)]
                      ELSE status
  /\ UNCHANGED <<upstream, recoveryFrame>>

\* checkAll, from the loop Start launched when cfg.Enabled: checkSource on
\* every enabled source
HealthCheckPass(s, lat) ==
  /\ monitor.loops > 0
  /\ ~monitor.ctxDone
  /\ sources[s].Enabled
  /\ s \in upstream.down => status[s].ConsecutiveFail < MaxFails
  /\ status' = [status EXCEPT ![s] =
                  CheckSourceEffect(@, lat, s \in upstream.down, failureThreshold)]
  /\ UNCHANGED <<upstream, rrIndex, routed, recoveryFrame>>

\* NewHealthChecker(manager, &cfg.HealthCheck) followed by Start(), over
\* enabled sources registered healthy, one priority each
InitRecovery ==
  /\ InitLimiter
  /\ limits = [k \in Keys |-> [RPM |-> 0, DailyQuota |-> 0, Concurrent |-> 0,
                               ToolQuotas |-> NoQuotas]]
  /\ callers = [c \in Callers |-> IdleCaller]
  /\ InitNoHTTP
  /\ InitNoEdgeButLate
  /\ \E c \in { HealthCheckConfig(e, 1, 1) : e \in BOOLEAN } :
       monitor = [IdleMonitor EXCEPT !.cfgs = <<c, c>>,
                                     !.loops = IF c.Enabled THEN 1 ELSE 0]
  /\ flow = IdleFlow
  /\ config = IdleConfig
  /\ InitNoLast
  /\ sources = [s \in SourceIDs |->
                  SourceConfig("openai", TRUE, TRUE, TRUE, TRUE, {}, s, 1, <<>>, "")]
  /\ status = [s \in SourceIDs |-> SourceStatus("healthy", 0, NoProviders)]
  /\ failureThreshold \in 1..MaxThreshold
  /\ failover = [Enabled |-> TRUE, MaxRetries |-> 2]
  /\ strategy = "priority"
  /\ rrIndex = 0
  /\ routed = NoRoute
  /\ call = IdleCall
  /\ logs = <<>>
  /\ failStreak = [s \in SourceIDs |-> 0]
  /\ recoveredFrom = [s \in SourceIDs |-> 0]

NextRecovery ==
  \/ \E s \in SourceIDs : Outage(s)
  \/ \E s \in SourceIDs : Restore(s)
  \/ \E order \in Orders, lat \in Latencies : ProxyAttempt(order, lat)
  \/ \E s \in SourceIDs, lat \in Latencies : HealthCheckPass(s, lat)

SpecRecovery == InitRecovery /\ [][NextRecovery]_vars

\* clients keep sending requests, and a running checker's ticker keeps firing
SpecRecoveryFair ==
  /\ SpecRecovery
  /\ WF_vars(\E order \in Orders, lat \in Latencies : ProxyAttempt(order, lat))
  /\ \A s \in SourceIDs : WF_vars(\E lat \in Latencies : HealthCheckPass(s, lat))

\* ================================================================ claims
\* admitted callers of Enter that have not yet invoked their release closure
InFlight(k) ==
  { c \in Callers : /\ callers[c].pc = "holding"
                    /\ callers[c].key = k
                    /\ callers[c].allowed
                    /\ callers[c].calls = 0 }

\* C1: with Concurrent = C > 0, the callers admitted by Enter that have not
\* yet invoked release never number more than C, and the counter is 0 once
\* every admitted caller has released.
C1_EnterConcurrentLimit ==
  \A k \in Keys :
    limits[k].Concurrent > 0 =>
      /\ Cardinality(InFlight(k)) <= limits[k].Concurrent
      /\ InFlight(k) = {} => concurrent[k] = 0

\* requests of credential k that are executing the chat-completion handler
InHandler(k) ==
  { r \in Reqs : reqs[r].keyID = k /\ reqs[r].pc \in {"executing", "deferred"} }

\* C2: on the HTTP path a credential with Concurrent = C > 0 never has more
\* than C requests executing the handler at once.
C2_HTTPConcurrentLimit ==
  \A k \in Keys :
    limits[k].Concurrent > 0 => Cardinality(InHandler(k)) <= limits[k].Concurrent

\* caller c has just had an admission call (Enter or AllowWithTool) rejected
RejectedCall(c) ==
  /\ callers[c].pc = "idle"
  /\ callers'[c].pc \in {"holding", "checked"}
  /\ ~callers'[c].allowed

\* C3 as stated: a rejected admission call leaves the RPM window length, the
\* daily and per-tool counters and the concurrent counter as they were.
C3_RejectLeavesAllCounters ==
  [][\A c \in Callers :
       RejectedCall(c) =>
         /\ Len(windows'[callers'[c].key]) = Len(windows[callers'[c].key])
         /\ dailyCount' = dailyCount
         /\ concurrent' = concurrent]_vars

\* C3 amended: a rejected admission call charges nothing: the daily, per-tool
\* and concurrent counters are unchanged and no timestamp is added to the RPM
\* window; the stored window may only lose timestamps older than one minute,
\* so the number of timestamps inside the current minute is unchanged.
C3_RejectChargesNothing ==
  [][\A c \in Callers :
       RejectedCall(c) =>
         LET k == callers'[c].key
         IN /\ dailyCount' = dailyCount
            /\ concurrent' = concurrent
            /\ windows'[k] \in {windows[k], PurgeWindow(windows[k], now)}
            /\ Len(PurgeWindow(windows'[k], now)) = Len(PurgeWindow(windows[k], now))]_vars

\* an AllowWithTool call rejected on the tool quota beside a rejected Enter
C3_Witness ==
  \E c1, c2 \in Callers :
    /\ callers[c1].pc = "checked" /\ ~callers[c1].allowed /\ callers[c1].reason = "Tool"
    /\ callers[c2].pc = "holding" /\ ~callers[c2].allowed

\* C4: invoking the release closure of an admitted Enter k >= 1 times
\* decrements the concurrent counter by exactly one in total (stated for the
\* credentials that have a concurrency limit, where Enter took a slot).
C4_ReleaseDecrementsOnce ==
  \A c \in Callers :
    ( /\ callers[c].pc = "holding" /\ callers[c].allowed /\ callers[c].calls >= 1
      /\ limits[callers[c].key].Concurrent > 0 )
      => callers[c].decs = 1

\* C5: every request that incremented the concurrent counter decrements it
\* exactly once on every exit of the handler: the counter always equals the
\* number of the credential's requests between AcquireConcurrent and the
\* deferred ReleaseConcurrent, and is 0 when there is none.
C5_AcquireReleasePaired ==
  \A k \in Keys :
    /\ concurrent[k] = Cardinality(InHandler(k))
    /\ \A r \in Reqs : reqs[r].holding <=> (reqs[r].keyID # "" /\ r \in InHandler(reqs[r].keyID))

\* a panic and a broken stream have both left the handler, nothing is held
C5_Witness ==
  \E r1, r2 \in Reqs :
    /\ reqs[r1].pc = "done" /\ reqs[r1].keyID = "k1" /\ reqs[r1].exit = "panic"
    /\ reqs[r2].pc = "done" /\ reqs[r2].keyID = "k1" /\ reqs[r2].exit = "streamAbort"
    /\ concurrent["k1"] = 0

\* C6: Enter evaluates the auto-ban first: while the ban is active it rejects
\* with key_auto_banned; a ban that has expired is cleared with the error
\* counter before the other checks.
C6_EnterChecksAutoBanFirst ==
  [][\A c \in Callers :
       (callers[c].pc = "idle" /\ callers'[c].pc = "holding") =>
         LET k == callers'[c].key
         IN /\ BanActive(k, now, autoBanned) =>
                 (~callers'[c].allowed /\ callers'[c].reason = "key_auto_banned")
            /\ BanExpired(k, now, autoBanned) =>
                 (autoBanned'[k] = NoBan /\ errorCount'[k] = 0)]_vars

\* rows of the request log that belong to request rid
RowsOf(rid) == { i \in DOMAIN logs : logs[i].rid = rid }

\* C7: every request that reached the proxy executor and terminated has
\* exactly one row in the request log, never none and never more than one.
C7_ExactlyOneLogRow ==
  /\ \A rid \in 1..MaxCalls : Cardinality(RowsOf(rid)) <= 1
  /\ call.pc = "done" => Cardinality(RowsOf(call.rid)) = 1

\* C8: within one request no source identifier is attempted twice, and
\* RouteRequest never returns a source that is in the exclude set it was
\* given, the FC-degradation fallback included.
C8_NoSourceTriedTwice ==
  /\ \A i, j \in DOMAIN call.tried : i # j => call.tried[i] # call.tried[j]
  /\ (routed.called /\ routed.ok) => routed.id \notin routed.exclude

\* a request with tools failed on a function-calling source and was then
\* routed, under the exclusion, to a source without function calling
C8_Witness ==
  /\ call.hasTools
  /\ Len(call.tried) >= 2
  /\ SourceSupportsFC(sources[call.tried[1]], status[call.tried[1]], call.model)
  /\ ~SourceSupportsFC(sources[call.tried[2]], status[call.tried[2]], call.model)
  /\ routed.exclude # {}

\* C9: a request with tools routed over a registry in which every source has
\* FC = false gets a non-FC source or no-available; and whatever the request
\* and the strategy, the source returned is never one whose non-empty model
\* list lacks the requested model.
C9_RouteRespectsModelFilter ==
  (routed.called /\ routed.ok) =>
    /\ (routed.hasTools /\ \A s \in SourceIDs : ~sources[s].FunctionCalling)
         => ~sources[routed.id].FunctionCalling
    /\ ~(sources[routed.id].Models # {} /\ routed.model \notin sources[routed.id].Models)

\* C10: from healthy with count 0 and threshold F, a source is healthy while
\* fewer than F probes in a row have failed, unhealthy once F probes in a row
\* have failed, and healthy with count 0 after the next successful probe.
C10_HealthStateMachine ==
  \A s \in SourceIDs :
    /\ failStreak[s] < failureThreshold => status[s].State = "healthy"
    /\ failStreak[s] >= failureThreshold => status[s].State = "unhealthy"
    /\ failStreak[s] = 0 => status[s].ConsecutiveFail = 0

\* one source has just reached the threshold, the other has recovered from a
\* streak that had made it unhealthy
C10_Witness ==
  \E s1, s2 \in SourceIDs :
    /\ failStreak[s1] = failureThreshold /\ status[s1].State = "unhealthy"
    /\ recoveredFrom[s2] >= failureThreshold /\ failStreak[s2] = 0
    /\ status[s2].State = "healthy" /\ status[s2].ConsecutiveFail = 0

\* C11: a write through a pointer that GetStatus returned (a field, an entry
\* inserted into or deleted from its ModelProviders map) leaves the value that
\* GetStatus returns for the source unchanged, and no goroutine holds the
\* address of the source's live status or of its live map.
HoldsLive(h) ==
  /\ holders[h].ptr # Nil
  /\ \/ holders[h].ptr = liveStatus
     \/ /\ liveStatus # Nil
        /\ heapStatus[holders[h].ptr].ModelProviders # Nil
        /\ heapStatus[holders[h].ptr].ModelProviders = heapStatus[liveStatus].ModelProviders

CallerWrites ==
  /\ liveStatus' = liveStatus
  /\ \A h \in Holders : holders'[h] = holders[h]

C11_StatusCopyIsolated ==
  [][ /\ CallerWrites => GetStatusView' = GetStatusView
      /\ \A h \in Holders : ~HoldsLive(h)' ]_vars

\* C12: a reply that is a tool_call object with a non-empty name n and
\* arguments a, bare or inside a code fence with or without the word json,
\* is projected to exactly one tool call named n whose arguments denote the
\* same JSON value as a, with finish_reason tool_calls.
IsFenced(text) ==
  /\ Len(text) >= 3
  /\ text[1].kind = "fence" /\ text[1].info \in {"", "json"}
  /\ text[Len(text)].kind = "fence"

\* the object inside a reply that is one JSON object, bare or fenced
Inner(text) ==
  IF IsFenced(text) THEN TrimSpace(SubSeq(text, 2, Len(text) - 1), {WS}) ELSE text

IsToolCallReply(text) ==
  /\ Len(Inner(text)) = 1
  /\ Inner(text)[1].kind = "json"
  /\ Inner(text)[1].obj.HasToolCall
  /\ Inner(text)[1].obj.Name # << >>
  /\ Inner(text)[1].obj.Arguments # NoArguments

ReplyName == Inner(compatText)[1].obj.Name
ReplyArguments == Inner(compatText)[1].obj.Arguments

C12_CompatRoundTrip ==
  (compatResp.built /\ IsToolCallReply(compatText)) =>
    /\ Len(compatResp.ToolCalls) = 1
    /\ compatResp.ToolCalls[1].Name = ReplyName
    /\ JsonValue(compatResp.ToolCalls[1].Arguments) = JsonValue(ReplyArguments)
    /\ compatResp.FinishReason = "tool_calls"

\* C12 as the code has it: the name must have a character that is not white
\* space and is returned trimmed; null arguments are returned as {}.
C12_CompatRoundTripTrimmed ==
  (compatResp.built /\ IsToolCallReply(compatText)
     /\ TrimSpace(ReplyName, {Blank}) # << >>) =>
    /\ Len(compatResp.ToolCalls) = 1
    /\ compatResp.ToolCalls[1].Name = TrimSpace(ReplyName, {Blank})
    /\ JsonValue(compatResp.ToolCalls[1].Arguments) =
         IF ReplyArguments = "null" THEN JsonValue("{}") ELSE JsonValue(ReplyArguments)
    /\ compatResp.FinishReason = "tool_calls"

C12_Witness ==
  /\ compatResp.built
  /\ IsFenced(compatText) /\ compatText[1].info = "json"
  /\ IsToolCallReply(compatText)
  /\ Len(ReplyName) = 2
  /\ ReplyArguments = "{ \"city\" : \"NYC\" }"
  /\ Len(compatResp.ToolCalls) = 1

\* the source of the last attempt of the request being served
LastTried == call.tried[Len(call.tried)]

\* C13: once SSE bytes were written to the client for a request, no further
\* source is routed or attempted for that request.
C13_NoFailoverAfterSSE ==
  [][ (call.written /\ call'.rid = call.rid) =>
        (call'.tried = call.tried /\ routed' = routed) ]_vars

C13_Witness ==
  /\ call.pc = "done" /\ call.path = "stream"
  /\ call.written /\ call.result = "midStreamError"
  /\ Len(call.tried) = 1
  /\ EffectiveMaxRetries(failover) >= 1
  /\ \E s \in SourceIDs : s # LastTried /\ sources[s].Enabled /\ status[s].State = "healthy"

\* C14: a stream that source A began and then broke leaves the request
\* terminated on A, with a log row for it whose source is A and whose success
\* bit is true.
C14_BrokenStreamLogged ==
  (call.pc = "done" /\ call.path = "stream" /\ call.result = "midStreamError") =>
    \E i \in RowsOf(call.rid) : logs[i].source = LastTried /\ logs[i].success

\* C15: the row of a request has failover_from equal to the first source tried
\* when more than one source was attempted, and empty when one was.
C15_FailoverFromFirstTried ==
  (call.pc = "done" /\ call.tried # << >>) =>
    \A i \in RowsOf(call.rid) :
      logs[i].failoverFrom = IF Len(call.tried) > 1 THEN call.tried[1] ELSE NoSource

\* C16: a request whose attempts all failed, or that found no source after
\* earlier attempts, is answered 500 with code all_sources_failed and has one
\* log row, whose source is the last source attempted.
C16_AllFailedRow ==
  (call.pc = "done" /\ call.tried # << >> /\ HandleReturnsFalse(call.result)) =>
    /\ call.statusCode = 500 /\ call.errorCode = "all_sources_failed"
    /\ Cardinality(RowsOf(call.rid)) = 1
    /\ \A i \in RowsOf(call.rid) : logs[i].statusCode = 500 /\ logs[i].source = LastTried

DemandSatisfied(s) ==
  /\ capQuery.needVision => sources[s].Vision
  /\ IF sources[s].Type = "cpa"
       THEN /\ ~capQuery.needThinking
            /\ capQuery.needFC => SupportsFCForModel(sources[s], status[s], capQuery.model)
       ELSE /\ capQuery.needFC => sources[s].FunctionCalling
            /\ capQuery.needThinking => sources[s].ExtendedThinking

\* C18: GetByCapability returns a source if and only if it is enabled, healthy,
\* its allowed-model list is empty or contains the requested model, and the
\* capability demand is satisfied (provider-aware for a cpa source).
C18_CapabilityFilterExact ==
  capQuery.called =>
    \A s \in SourceIDs :
      s \in capQuery.result <=>
        /\ sources[s].Enabled
        /\ status[s].State = "healthy"
        /\ (sources[s].Models = {} \/ capQuery.model \in sources[s].Models)
        /\ DemandSatisfied(s)

\* the non-excluded sources that pass the enabled, healthy, model, thinking
\* and vision filters of the routed request
PassingSources ==
  { s \in SourceIDs \ routed.exclude :
      /\ sources[s].Enabled
      /\ status[s].State = "healthy"
      /\ (sources[s].Models = {} \/ routed.model \in sources[s].Models)
      /\ routed.hasThinking =>
           (sources[s].Type # "cpa" /\ sources[s].ExtendedThinking)
      /\ routed.hasVision => sources[s].Vision }

\* those of them that support function calling for the requested model
PassingFCSources ==
  { s \in PassingSources : SourceSupportsFC(sources[s], status[s], routed.model) }

\* C19: a request with tools gets a function-calling candidate whenever a
\* non-excluded one exists; otherwise it gets a candidate without function
\* calling whenever a non-excluded source passes the enabled, healthy, model,
\* thinking and vision filters; no-available is returned only when no such
\* source exists.
C19_ToolsRouteDegrades ==
  (routed.called /\ routed.hasTools) =>
    /\ PassingFCSources # {} => (routed.ok /\ routed.id \in PassingFCSources)
    /\ (PassingFCSources = {} /\ PassingSources # {})
         => (routed.ok /\ routed.id \in PassingSources)
    /\ ~routed.ok => PassingSources = {}

\* a pass has been made and every goroutine it started has returned
PassComplete == pass.phase = "idle" /\ pass.n > 0

\* C20: in each health-check pass exactly one HTTP probe request is issued
\* per enabled source, aggregators with auto_detect included.
C20_OneProbePerSource ==
  PassComplete => \A s \in SourceIDs : sources[s].Enabled => pass.requests[s] = 1

\* C20, as the code has it: a pass sends at most one request to a source,
\* none to a disabled source, and exactly one to every enabled source whose
\* probe request can be built from its base_url, aggregators with
\* auto_detect included.
C20_AtMostOneProbePerSource ==
  /\ \A s \in SourceIDs : pass.requests[s] <= 1
  /\ \A s \in SourceIDs : ~sources[s].Enabled => pass.requests[s] = 0
  /\ PassComplete =>
       \A s \in SourceIDs :
         (sources[s].Enabled /\ NewRequestBuilds(baseURL[s])) => pass.requests[s] = 1

\* a pass is over in which an aggregator with auto_detect got its one
\* request and its models were detected from the answer
C20_Witness ==
  /\ PassComplete
  /\ \E s \in SourceIDs :
       /\ sources[s].Type = "cpa" /\ autoDetect[s] /\ sources[s].Enabled
       /\ pass.requests[s] = 1
       /\ status[s].ModelProviders # NoProviders

\* the enabled flag or the interval differs between the checker's
\* configuration before the last UpdateConfig and the one it was given
ConfigChanged ==
  \/ monitor.update.before.Enabled # monitor.update.after.Enabled
  \/ monitor.update.before.Interval # monitor.update.after.Interval

\* C21: UpdateConfig restarts the probe loop if and only if the enabled flag
\* or the interval changed, and whatever the sequence of UpdateConfig calls,
\* at most one probe loop is running at any time.
C21_RestartIffChanged ==
  /\ monitor.update.called => (monitor.update.restarted <=> ConfigChanged)
  /\ monitor.loops <= 1

\* C22: TestConnection against a reachable source succeeds whatever the
\* monitor's lifecycle: it never fails because the monitor was stopped or is
\* being restarted.
C22_TestConnectionIndependent ==
  (monitor.test.called /\ monitor.test.reachable) => monitor.test.ok

\* Source.Capabilities: the declared capability record
DeclaredCapabilities(src) ==
  [FunctionCalling |-> src.FunctionCalling, ExtendedThinking |-> src.ExtendedThinking,
   Vision |-> src.Vision, Models |-> src.Models]

\* C23: the declared capability record of a source (FC, extended-thinking and
\* vision bits, allowed-model list) is never written by the Health Monitor:
\* no step of a health-check pass changes it.
C23_MonitorLeavesDeclared ==
  [][ \A s \in SourceIDs :
        DeclaredCapabilities(sources'[s]) = DeclaredCapabilities(sources[s]) ]_vars

\* C24: after every upstream attempt of the executor the source's status is
\* updated: a failed attempt (transport error, non-200 status, unreadable
\* response) adds one to consecutive-failure, sets last-error and makes the
\* source unhealthy once the threshold is reached; a successful attempt
\* resets consecutive-failure to 0 and marks it healthy; the latency is
\* recorded on every attempt that reached the upstream.
C24_AttemptUpdatesStatus ==
  [][ Len(call'.tried) = Len(call.tried) + 1 =>
        LET id == call'.tried[Len(call'.tried)]
            result == call'.result
        IN /\ result \in {"transportError", "non200", "bodyError", "midStreamError"} =>
                /\ status'[id].ConsecutiveFail = status[id].ConsecutiveFail + 1
                /\ status'[id].LastError # ""
                /\ status'[id].ConsecutiveFail >= failureThreshold =>
                     status'[id].State = "unhealthy"
           /\ result = "ok" =>
                /\ status'[id].ConsecutiveFail = 0
                /\ status'[id].State = "healthy"
           /\ result # "buildError" => status'[id].Latency \in Latencies ]_vars



\* the place of a side effect in the order the request is to go through
Rank(e) ==
  CASE e = "admission" -> 1
    [] e = "acquire" -> 2
    [] e = "route" -> 3
    [] e = "translate" -> 4
    [] e = "io" -> 5
    [] e = "health" -> 6
    [] e = "log" -> 7
    [] OTHER -> 8

\* C25: within one request the side effects happen in the order admission,
\* route, translate, upstream I/O, source health update, log write, release of
\* the concurrency token; a failed attempt may only be followed by the route
\* step of the next attempt. In particular every health update precedes the
\* log write, and the log row is written before the token is released, on the
\* normal, stream, compat and all-sources-failed paths.
C25_EffectsInOrder ==
  LET ev == flow.events
  IN /\ ev # <<>> => ev[1] = "admission"
     /\ \A i \in 1..(Len(ev) - 1) :
          \/ Rank(ev[i]) < Rank(ev[i + 1])
          \/ ev[i + 1] = "route" /\ ev[i] \in {"translate", "io", "health"}
     /\ \A i, j \in 1..Len(ev) :
          /\ (ev[i] = "health" /\ ev[j] = "log") => i < j
          /\ (ev[i] = "log" /\ ev[j] = "release") => i < j

\* a managed request that failed over once and was then served: two attempts,
\* two health updates, one log row, then the release
C25_Witness ==
  /\ flow.pc = "done"
  /\ flow.events = <<"admission", "acquire", "route", "translate", "io", "health",
                     "route", "translate", "io", "health", "log", "release">>

\* C26: a request whose client disconnected after admission (before the
\* upstream call, during a non-stream call, or between SSE frames) has, once
\* its handler returned, released its concurrency token and persisted a
\* request-log row.
C26_DisconnectStillLogsAndReleases ==
  (flow.pc = "done" /\ flow.bound /\ flow.cancelled) =>
     (~flow.token /\ flow.rows >= 1)

\* the number of iterations of the retry loop that reached a source
Attempts == Cardinality({ i \in 1..Len(flow.events) : flow.events[i] = "route" })

\* C29: a request makes at most maxRetries+1 upstream attempts (maxRetries is
\* 0 with failover disabled, the configured value otherwise), and the loop
\* ends with a served response or with the 500 all-sources-failed response.
C29_BoundedAttemptsThenAnswer ==
  /\ Attempts <= flow.maxRetries + 1
  /\ (flow.pc = "done" /\ flow.bound) => flow.answer \in {"served", "all_sources_failed"}


\* what the middleware is to answer to a request with this token and tool:
\* the status and the code of the rejection, "" for a request it lets through
ExpectedRejection(token, tool) ==
  LET k == KeyOfToken(token)
  IN IF token = "" THEN [status |-> 401, exit |-> "401 missing_api_key"]
     ELSE IF k = ""
       THEN IF token # serverAPIKey THEN [status |-> 401, exit |-> "401 invalid_api_key"]
            ELSE [status |-> 0, exit |-> ""]
     ELSE IF ~keyEnabled[k] THEN [status |-> 403, exit |-> "403 key_disabled"]
     ELSE IF allowedTools[k] # {} /\ tool \notin allowedTools[k]
       THEN [status |-> 403, exit |-> "403 tool_not_allowed"]
     ELSE IF BanActive(k, now, autoBanned) THEN [status |-> 403, exit |-> "key_auto_banned"]
     ELSE [status |-> 0, exit |-> ""]

\* the step of the middleware on request r answers as expected: a rejection
\* with the expected status and code, and 429 when AllowWithTool refuses
AnswersAsExpected(r) ==
  /\ \A token \in Tokens, tool \in ReqTools :
       Authenticate(r, token, tool) =>
         LET e == ExpectedRejection(token, tool)
         IN IF e.status # 0
              THEN /\ reqs'[r].pc = "rejected"
                   /\ reqs'[r].status = e.status
                   /\ reqs'[r].exit = e.exit
              ELSE reqs'[r].pc \in {"handler", "limit"}
  /\ Admit(r) =>
       IF AllowWithToolOutcome(reqs[r].keyID, limits[reqs[r].keyID], reqs[r].tool,
                               now, windows, dailyCount).allowed
         THEN reqs'[r].pc = "handler"
         ELSE /\ reqs'[r].pc = "rejected"
              /\ reqs'[r].status = 429
              /\ reqs'[r].exit = "rate_limit_exceeded"
  /\ reqs[r].pc = "rejected" => reqs'[r].pc = "rejected"

Observed == ConfigValue(config.reader.enabled, config.reader.maxRetries,
                        config.reader.threshold)

\* C28: a request that read the configuration while an admin update was
\* applied observed one complete configuration, the old one or the new one,
\* never a mixture of the two.
C28_ConfigReadsAreAtomic ==
  config.reader.pc = "done" => Observed \in config.versions


\* the "arguments" of the tool call in the upstream's reply, as sent
RepliedArguments == StripCodeFence(TrimSpace(compatText, {WS}))[1].obj.Arguments

\* C30: the compat response projection canonicalizes the arguments of the
\* tool call it emits: missing or null arguments become {}, and arguments
\* given as a string that is not JSON become {"input": <the string>}.
C30_ArgumentsCanonicalized ==
  (compatResp.built /\ compatResp.ToolCalls # << >>) =>
     /\ RepliedArguments \in {NoArguments, "null"} =>
          compatResp.ToolCalls[1].Arguments = "{}"
     /\ JsonValue(RepliedArguments) = "string(NYC)" =>
          compatResp.ToolCalls[1].Arguments = "{\"input\":...}"


\* C31: under round-robin over an unchanging pool of n >= 2 candidates the
\* calls are spread over the pool and no candidate is starved: once
\* RoundRobinWindow (10) consecutive calls were made, every candidate has been
\* selected at least once.
C31_RoundRobinReachesAll ==
  Len(picks) = RoundRobinWindow => SeqToSet(picks) = SourceIDs


\* the admitted calls of k whose timestamps lie in the minute that ends at t
AdmittedInMinute(k, t) ==
  { i \in DOMAIN admissions[k].stamps :
      /\ admissions[k].stamps[i] > t - TicksPerMinute
      /\ admissions[k].stamps[i] <= t }

KnownTools ==
  {"cursor", "claude-code", "codex-cli", "continue", "copilot", "openai-sdk",
   "anthropic-sdk", "unknown"}

\* C33: for every header map DetectTool returns one of the closed set
\* {cursor, claude-code, codex-cli, continue, copilot, openai-sdk,
\* anthropic-sdk, unknown}, also when an X-Client-Name header is present and
\* takes precedence over the User-Agent.
C33_DetectToolClosedSet ==
  detect.called => \E t \in KnownTools : detect.tool = <<t>>


\* C34: invoking the release closure returned by a rejected Enter leaves the
\* credential's concurrent counter unchanged, so a rejected caller that
\* releases on every exit path never frees a slot of an admitted request.
C34_RejectedReleaseIsNoOp ==
  [][ \A c \in Callers :
        ( /\ callers[c].pc = "holding"
          /\ ~callers[c].allowed
          /\ callers'[c].calls = callers[c].calls + 1 )
        => concurrent' = concurrent ]_vars


\* C35: for a tools-bearing request the body sent upstream still carries the
\* caller's tools (native path) or carries the synthesized compatibility
\* prompt (compat path): the translator and the executor never disagree so
\* that the tools are stripped without the compat layer being invoked, even
\* when the health monitor rewrites the source between the two evaluations.
C35_ToolsOrCompatPrompt ==
  xlate.pc = "sent" => (xlate.hasTools \/ xlate.hasPrompt)

\* the attempt under way fails for the one reason that the client cancelled:
\* the request's context was cancelled before the upstream call ended
FailsByCancellation ==
  /\ flow.pc = "epilogue"
  /\ flow.cancelled
  /\ flow.result \in CancelledResults

\* C36: a failure caused solely by the client cancelling its request never
\* increments a source's consecutive-failure count and never turns a healthy
\* source unhealthy.
C36_CancellationLeavesStatus ==
  [][FailsByCancellation =>
       \A s \in SourceIDs :
         /\ status'[s].ConsecutiveFail <= status[s].ConsecutiveFail
         /\ IsHealthy(status[s]) => IsHealthy(status'[s])]_vars

\* every update of the status has been stored
UpdatesDone == \A u \in Updaters : updaters.by[u].pc = "done"

\* the updates that report a failure
FailedUpdaters == { u \in Updaters : updaters.by[u].failed }

\* the status after the updates of us ran one after the other, in every order
RECURSIVE SequentialResults(_, _)
SequentialResults(st, us) ==
  IF us = {} THEN {st}
  ELSE UNION { SequentialResults(
                 CountFailure(st, updaters.by[u].failed, failureThreshold), us \ {u})
               : u \in us }

\* C37: status updates are not lost under concurrency: k concurrent failures
\* raise the error count by exactly k, and the status after concurrent updates
\* is the one some sequential order of them leaves.
C37_NoLostStatusUpdate ==
  UpdatesDone =>
    /\ updaters.live.ErrorCount = updaters.base.ErrorCount + Cardinality(FailedUpdaters)
    /\ updaters.live \in SequentialResults(updaters.base, Updaters)

\* C38: a request whose bearer token is the secret of a disabled managed
\* credential is never passed on to the proxy handler, whatever the server's
\* configuration, the one without a static API key included: the middleware
\* rejects it.
C38_DisabledKeyNeverServed ==
  [][\A r \in Reqs, tool \in ReqTools :
       ( /\ ~keyEnabled[KeyOfToken(ManagedToken)]
         /\ Authenticate(r, ManagedToken, tool) )
         => reqs'[r].pc = "rejected"]_vars

\* C39: once armed, the auto-ban of a credential lasts AutoBanDuration from
\* the RecordError that reached the threshold: while it is active no call
\* lifts it (RecordSuccess) and no call moves its start (RecordError).
C39_BanLastsExactlyItsDuration ==
  [][\A k \in Keys :
       BanActive(k, now, autoBanned) => autoBanned'[k] = autoBanned[k]]_vars

\* C40: no enabled source stays unhealthy for ever while its upstream answers:
\* an enabled source that is unhealthy and whose upstream answers is healthy
\* again later (or its upstream has stopped answering again), with the
\* background health checking enabled or disabled.
C40_UnhealthyRecovers ==
  \A s \in SourceIDs :
    (sources[s].Enabled /\ ~IsHealthy(status[s]) /\ s \notin upstream.down)
      ~> (IsHealthy(status[s]) \/ s \in upstream.down)

====
